---- MODULE Spec2Model ----
(***************************************************************************)
(* Model of the inflation package (earentir/inflation): the rate table     *)
(* (Data / Country), country resolution (GetCountry), the rate lookup      *)
(* (YearInflation) and the two price comparisons (CompareInflation,        *)
(* CompareInflationWithBaseYear).                                          *)
(*                                                                         *)
(* Strings are sequences of one-character strings.  float64 values are     *)
(* modelled as binary floating-point numbers with Precision significant    *)
(* bits, round-to-nearest-even, and the IEEE-754 special values; the       *)
(* exponent is unbounded (the inputs stay far from overflow) and zero is   *)
(* unsigned.  Go's randomised map iteration is an explicit order argument. *)
(***************************************************************************)
EXTENDS Integers, Sequences, FiniteSets, TLC

\* ------------------------------------------------------------------ bounds
\* number of significant bits of the modelled float64 (53 in Go)
Precision == 5
\* longest table drawn in Init
MaxCountries == 2
\* number of year keys of the tables of the date searches
MaxYears == 3
\* number of data rows of the CSV files of the import
MaxRows == 2

\* ----------------------------------------------------------------- strings
UpperChars == <<"A","B","C","D","E","F","G","H","I","J","K","L","M",
                "N","O","P","Q","R","S","T","U","V","W","X","Y","Z">>
LowerChars == <<"a","b","c","d","e","f","g","h","i","j","k","l","m",
                "n","o","p","q","r","s","t","u","v","w","x","y","z">>
DigitChars == <<"0","1","2","3","4","5","6","7","8","9">>

\* the upper-case ASCII letters and their lower-case forms
LowerOf == [c \in {UpperChars[i] : i \in DOMAIN UpperChars} |->
              LowerChars[CHOOSE i \in DOMAIN UpperChars : UpperChars[i] = c]]

\* strings.ToLower on the ASCII range: upper-case letters are mapped to
\* lower case, every other character is kept
LowerChar(c) == IF c \in DOMAIN LowerOf THEN LowerOf[c] ELSE c

ToLower(s) == [i \in DOMAIN s |-> LowerChar(s[i])]

\* fmt.Sprintf("%d", n)
RECURSIVE FormatNat(_)
FormatNat(n) ==
  IF n < 10 THEN <<DigitChars[n + 1]>>
  ELSE Append(FormatNat(n \div 10), DigitChars[(n % 10) + 1])

FormatInt(n) == IF n < 0 THEN <<"-">> \o FormatNat(-n) ELSE FormatNat(n)

\* FormatInt02 without the zero padding
FormatInt02Unpadded(n) == FormatInt(n)

\* fmt.Sprintf("%02d", n): zero-padded to width 2 (the sign counts)
FormatInt02(n) ==
  IF Len(FormatInt(n)) < 2 THEN <<"0">> \o FormatInt(n) ELSE FormatInt(n)

\* ----------------------------------------------------------------- float64
RECURSIVE Pow2(_)
Pow2(k) == IF k <= 0 THEN 1 ELSE 2 * Pow2(k - 1)

Abs(n) == IF n < 0 THEN -n ELSE n
Sign(n) == IF n < 0 THEN -1 ELSE 1

\* number of bits of a natural number (0 for 0)
RECURSIVE BitLen(_)
BitLen(n) == IF n = 0 THEN 0 ELSE 1 + BitLen(n \div 2)

FZero == [k |-> "fin", m |-> 0, e |-> 0]
FNaN == [k |-> "nan", m |-> 0, e |-> 0]
FInf(s) == [k |-> "inf", m |-> s, e |-> 0]

\* the float nearest to n * 2^e (n an integer), ties to even, normalised so
\* that the mantissa has exactly Precision bits
FRound(n, e) ==
  IF n = 0 THEN FZero
  ELSE
    LET a == Abs(n)
        k == BitLen(a) - Precision
    IN IF k <= 0
       THEN [k |-> "fin", m |-> Sign(n) * a * Pow2(-k), e |-> e + k]
       ELSE LET q == a \div Pow2(k)
                r == a % Pow2(k)
                half == Pow2(k - 1)
                up == r > half \/ (r = half /\ q % 2 = 1)
                q1 == IF up THEN q + 1 ELSE q
            IN IF q1 = Pow2(Precision)
               THEN [k |-> "fin", m |-> Sign(n) * Pow2(Precision - 1), e |-> e + k + 1]
               ELSE [k |-> "fin", m |-> Sign(n) * q1, e |-> e + k]

\* float64(n) for an integer n
FInt(n) == FRound(n, 0)

\* n / 2^j as a float
FFrac(n, j) == FRound(n, -j)

FIsZero(x) == x.k = "fin" /\ x.m = 0
FIsFinite(x) == x.k = "fin"
FSign(x) == IF x.m < 0 THEN -1 ELSE 1

FNeg(x) == [x EXCEPT !.m = -x.m]

\* x + y
FAdd(x, y) ==
  IF x.k = "nan" \/ y.k = "nan" THEN FNaN
  ELSE IF x.k = "inf" /\ y.k = "inf" THEN (IF x.m = y.m THEN x ELSE FNaN)
  ELSE IF x.k = "inf" THEN x
  ELSE IF y.k = "inf" THEN y
  ELSE IF x.m = 0 THEN y
  ELSE IF y.m = 0 THEN x
  ELSE LET e == IF x.e < y.e THEN x.e ELSE y.e
       IN FRound(x.m * Pow2(x.e - e) + y.m * Pow2(y.e - e), e)

\* x - y
FSub(x, y) == FAdd(x, FNeg(y))

\* x * y
FMul(x, y) ==
  IF x.k = "nan" \/ y.k = "nan" THEN FNaN
  ELSE IF x.k = "inf" \/ y.k = "inf"
       THEN (IF FIsZero(x) \/ FIsZero(y) THEN FNaN ELSE FInf(FSign(x) * FSign(y)))
  ELSE FRound(x.m * y.m, x.e + y.e)

\* x / y
FDiv(x, y) ==
  IF x.k = "nan" \/ y.k = "nan" THEN FNaN
  ELSE IF x.k = "inf" THEN (IF y.k = "inf" THEN FNaN ELSE FInf(FSign(x) * FSign(y)))
  ELSE IF y.k = "inf" THEN FZero
  ELSE IF y.m = 0 THEN (IF x.m = 0 THEN FNaN ELSE FInf(FSign(x)))
  ELSE IF x.m = 0 THEN FZero
  ELSE LET n == Abs(x.m) * Pow2(Precision + 1)
           q == n \div Abs(y.m)
           sticky == IF n % Abs(y.m) = 0 THEN 0 ELSE 1
       IN FRound(FSign(x) * FSign(y) * (2 * q + sticky),
                 x.e - y.e - Precision - 2)

\* ------------------------------------------------------------------ errors
\* An error value: the kind of the fmt.Errorf message and the values that
\* are formatted into it (str: the %s argument, year / month: the %d
\* arguments); wrap is the prefix CompareInflationWithBaseYear adds.
Nil == [kind |-> "nil", str |-> <<>>, year |-> 0, month |-> 0, wrap |-> "none"]

Err(kind, str, year, month) ==
  [kind |-> kind, str |-> str, year |-> year, month |-> month, wrap |-> "none"]

\* fmt.Errorf("<prefix>: %v", err)
Wrap(prefix, err) == [err EXCEPT !.wrap = prefix]

\* ------------------------------------------------------------- the table
\* type Country struct { Name, Aliases, Code, BaseYear, Inflation }
\* AliasesNil / InflationNil tell a nil slice / map from an empty one: the
\* two behave alike (len, range, lookup) except when they are marshalled.
Country(name, aliases, code, baseYear, inflation) ==
  [Name |-> name, Aliases |-> aliases, Code |-> code,
   BaseYear |-> baseYear, Inflation |-> inflation,
   AliasesNil |-> FALSE, InflationNil |-> FALSE]

\* a map without entries
EmptyMap == [x \in {} |-> x]

\* ------------------------------------------------------------ GetCountry
\* CountryMatches without the loop over the aliases
CountryMatchesNoAlias(country, query) ==
  \/ ToLower(country.Name) = query
  \/ ToLower(country.Code) = query

\* the body of the loop of GetCountry for one country: name, code, aliases
CountryMatches(country, query) ==
  \/ ToLower(country.Name) = query
  \/ ToLower(country.Code) = query
  \/ \E j \in DOMAIN country.Aliases : ToLower(country.Aliases[j]) = query

\* the scan of d.Countries from index i on; 0 when the loop runs out
RECURSIVE GetCountryScan(_, _, _)
GetCountryScan(countries, query, i) ==
  IF i > Len(countries) THEN 0
  ELSE IF CountryMatches(countries[i], query) THEN i
  ELSE GetCountryScan(countries, query, i + 1)

\* func (d *Data) GetCountry(query string) (*Country, error): the pointer
\* &d.Countries[i] is the index i (0: nil).  query is reassigned to its
\* lower-case form before the error is formatted.
GetCountry(countries, query0) ==
  LET query == ToLower(query0)
      i == GetCountryScan(countries, query, 1)
  IN IF i # 0 THEN [idx |-> i, err |-> Nil]
     ELSE [idx |-> 0, err |-> Err("CountryNotFound", query, 0, 0)]

\* --------------------------------------------------------- YearInflation
\* RangeSum that leaves the loop one entry early
RECURSIVE RangeSumOffByOne(_, _, _, _)
RangeSumOffByOne(yearData, order, i, sum) ==
  IF i >= Len(order) THEN sum
  ELSE RangeSumOffByOne(yearData, order, i + 1, FAdd(sum, yearData[order[i]]))

\* for _, rate := range yearData { sum += rate; count++ } with the entries
\* visited in the given order
RECURSIVE RangeSum(_, _, _, _)
RangeSum(yearData, order, i, sum) ==
  IF i > Len(order) THEN sum
  ELSE RangeSum(yearData, order, i + 1, FAdd(sum, yearData[order[i]]))

\* the orders in which a range loop can visit the keys of a map
MapOrders(m) ==
  LET n == Cardinality(DOMAIN m)
  IN {o \in [1..n -> DOMAIN m] : \A i, j \in 1..n : i # j => o[i] # o[j]}

\* YearInflation that validates the month before it resolves the country
YearInflationMonthFirst(countries, country, year, month, order) ==
  IF month < 0 \/ month > 12
  THEN [rate |-> FZero, err |-> Err("InvalidMonth", <<>>, 0, month)]
  ELSE
    LET g == GetCountry(countries, country)
    IN IF g.err # Nil THEN [rate |-> FZero, err |-> g.err]
       ELSE
         LET c == countries[g.idx]
             yearStr == FormatInt(year)
         IN IF yearStr \notin DOMAIN c.Inflation
            THEN [rate |-> FZero, err |-> Err("YearNotFound", country, year, 0)]
            ELSE
              LET yearData == c.Inflation[yearStr]
              IN IF month = 0
                 THEN LET sum == RangeSum(yearData, order, 1, FZero)
                          count == Len(order)
                      IN IF count = 0
                         THEN [rate |-> FZero,
                               err |-> Err("NoMonthlyData", country, year, 0)]
                         ELSE [rate |-> FDiv(sum, FInt(count)), err |-> Nil]
                 ELSE LET monthStr == FormatInt02(month)
                      IN IF monthStr \notin DOMAIN yearData
                         THEN [rate |-> FZero,
                               err |-> Err("MonthNotFound", country, year, month)]
                         ELSE [rate |-> yearData[monthStr], err |-> Nil]

\* func (d *Data) YearInflation(country string, year int, month int)
\* (float64, error); order is the order of the range loop over yearData
YearInflation(countries, country, year, month, order) ==
  LET g == GetCountry(countries, country)
  IN IF g.err # Nil THEN [rate |-> FZero, err |-> g.err]
     ELSE
       LET c == countries[g.idx]
           yearStr == FormatInt(year)
       IN IF yearStr \notin DOMAIN c.Inflation
          THEN [rate |-> FZero, err |-> Err("YearNotFound", country, year, 0)]
          ELSE
            LET yearData == c.Inflation[yearStr]
            IN IF month = 0
               THEN LET sum == RangeSum(yearData, order, 1, FZero)
                        count == Len(order)
                    IN IF count = 0
                       THEN [rate |-> FZero,
                             err |-> Err("NoMonthlyData", country, year, 0)]
                       ELSE [rate |-> FDiv(sum, FInt(count)), err |-> Nil]
               ELSE IF month >= 1 /\ month <= 12
               THEN LET monthStr == FormatInt02(month)
                    IN IF monthStr \notin DOMAIN yearData
                       THEN [rate |-> FZero,
                             err |-> Err("MonthNotFound", country, year, month)]
                       ELSE [rate |-> yearData[monthStr], err |-> Nil]
               ELSE [rate |-> FZero, err |-> Err("InvalidMonth", <<>>, 0, month)]

\* the orders the range loop of one YearInflation call can take: those of
\* yearData when the call reaches the loop, the empty order otherwise
RangeOrders(countries, country, year, month) ==
  LET g == GetCountry(countries, country)
  IN IF g.err = Nil /\ month = 0
        /\ FormatInt(year) \in DOMAIN countries[g.idx].Inflation
     THEN MapOrders(countries[g.idx].Inflation[FormatInt(year)])
     ELSE {<<>>}

\* one entry of the log of YearInflation calls: the arguments and the result
Call(country, year, month, r) ==
  [country |-> country, year |-> year, month |-> month,
   rate |-> r.rate, err |-> r.err]

\* ------------------------------------------------------ CompareInflation
\* CompareInflation with the quotient inverted (fromRate / toRate)
CompareInflationInverted(countries, country, fromYear, fromMonth, toYear, toMonth, price, order1, order2) ==
  LET from == YearInflation(countries, country, fromYear, fromMonth, order1)
      call1 == <<Call(country, fromYear, fromMonth, from)>>
  IN IF from.err # Nil
     THEN [newPrice |-> FZero, cumulativeRate |-> FZero, err |-> from.err,
           calls |-> call1]
     ELSE
       LET to == YearInflation(countries, country, toYear, toMonth, order2)
           call2 == Append(call1, Call(country, toYear, toMonth, to))
       IN IF to.err # Nil
          THEN [newPrice |-> FZero, cumulativeRate |-> FZero, err |-> to.err,
                calls |-> call2]
          ELSE
            LET inflationFactor == FDiv(from.rate, to.rate)
                newPrice == FMul(price, inflationFactor)
                cumulativeRate == FMul(FSub(inflationFactor, FInt(1)), FInt(100))
            IN [newPrice |-> newPrice, cumulativeRate |-> cumulativeRate,
                err |-> Nil, calls |-> call2]

\* CompareInflation that fetches the to-date rate before the from-date rate
CompareInflationToFirst(countries, country, fromYear, fromMonth, toYear, toMonth, price, order1, order2) ==
  LET to == YearInflation(countries, country, toYear, toMonth, order2)
      call1 == <<Call(country, toYear, toMonth, to)>>
  IN IF to.err # Nil
     THEN [newPrice |-> FZero, cumulativeRate |-> FZero, err |-> to.err,
           calls |-> call1]
     ELSE
       LET from == YearInflation(countries, country, fromYear, fromMonth, order1)
           call2 == Append(call1, Call(country, fromYear, fromMonth, from))
       IN IF from.err # Nil
          THEN [newPrice |-> FZero, cumulativeRate |-> FZero, err |-> from.err,
                calls |-> call2]
          ELSE
            LET inflationFactor == FDiv(to.rate, from.rate)
                newPrice == FMul(price, inflationFactor)
                cumulativeRate == FMul(FSub(inflationFactor, FInt(1)), FInt(100))
            IN [newPrice |-> newPrice, cumulativeRate |-> cumulativeRate,
                err |-> Nil, calls |-> call2]

\* CompareInflation that rejects a zero from-date rate with an error
CompareInflationGuarded(countries, country, fromYear, fromMonth, toYear, toMonth, price, order1, order2) ==
  LET from == YearInflation(countries, country, fromYear, fromMonth, order1)
      call1 == <<Call(country, fromYear, fromMonth, from)>>
  IN IF from.err # Nil
     THEN [newPrice |-> FZero, cumulativeRate |-> FZero, err |-> from.err,
           calls |-> call1]
     ELSE
       LET to == YearInflation(countries, country, toYear, toMonth, order2)
           call2 == Append(call1, Call(country, toYear, toMonth, to))
       IN IF to.err # Nil
          THEN [newPrice |-> FZero, cumulativeRate |-> FZero, err |-> to.err,
                calls |-> call2]
          ELSE IF FIsZero(from.rate)
          THEN [newPrice |-> FZero, cumulativeRate |-> FZero,
                err |-> Err("DivisionByZero", country, fromYear, fromMonth),
                calls |-> call2]
          ELSE
            LET inflationFactor == FDiv(to.rate, from.rate)
                newPrice == FMul(price, inflationFactor)
                cumulativeRate == FMul(FSub(inflationFactor, FInt(1)), FInt(100))
            IN [newPrice |-> newPrice, cumulativeRate |-> cumulativeRate,
                err |-> Nil, calls |-> call2]

\* CompareInflation that returns the from-date error under a prefix
CompareInflationWrapping(countries, country, fromYear, fromMonth, toYear, toMonth, price, order1, order2) ==
  LET from == YearInflation(countries, country, fromYear, fromMonth, order1)
      call1 == <<Call(country, fromYear, fromMonth, from)>>
  IN IF from.err # Nil
     THEN [newPrice |-> FZero, cumulativeRate |-> FZero, err |-> Wrap("from", from.err),
           calls |-> call1]
     ELSE
       LET to == YearInflation(countries, country, toYear, toMonth, order2)
           call2 == Append(call1, Call(country, toYear, toMonth, to))
       IN IF to.err # Nil
          THEN [newPrice |-> FZero, cumulativeRate |-> FZero, err |-> to.err,
                calls |-> call2]
          ELSE
            LET inflationFactor == FDiv(to.rate, from.rate)
                newPrice == FMul(price, inflationFactor)
                cumulativeRate == FMul(FSub(inflationFactor, FInt(1)), FInt(100))
            IN [newPrice |-> newPrice, cumulativeRate |-> cumulativeRate,
                err |-> Nil, calls |-> call2]

\* func (d *Data) CompareInflation(country, fromYear, fromMonth, toYear,
\* toMonth, price) (float64, float64, error); order1 / order2 are the range
\* orders of the two YearInflation calls, calls is the log of those calls
CompareInflation(countries, country, fromYear, fromMonth, toYear, toMonth, price, order1, order2) ==
  LET from == YearInflation(countries, country, fromYear, fromMonth, order1)
      call1 == <<Call(country, fromYear, fromMonth, from)>>
  IN IF from.err # Nil
     THEN [newPrice |-> FZero, cumulativeRate |-> FZero, err |-> from.err,
           calls |-> call1]
     ELSE
       LET to == YearInflation(countries, country, toYear, toMonth, order2)
           call2 == Append(call1, Call(country, toYear, toMonth, to))
       IN IF to.err # Nil
          THEN [newPrice |-> FZero, cumulativeRate |-> FZero, err |-> to.err,
                calls |-> call2]
          ELSE
            LET inflationFactor == FDiv(to.rate, from.rate)
                newPrice == FMul(price, inflationFactor)
                cumulativeRate == FMul(FSub(inflationFactor, FInt(1)), FInt(100))
            IN [newPrice |-> newPrice, cumulativeRate |-> cumulativeRate,
                err |-> Nil, calls |-> call2]

\* ------------------------------------------ CompareInflationWithBaseYear
\* CompareInflationWithBaseYear that fetches the base rate for the target
\* month instead of the whole year
CompareInflationWithBaseYearTargetMonth(countries, country, targetYear, targetMonth, price, order1, order2) ==
  LET g == GetCountry(countries, country)
  IN IF g.err # Nil
     THEN [newPrice |-> FZero, err |-> g.err, calls |-> <<>>]
     ELSE
       LET baseYear == countries[g.idx].BaseYear
       IN IF baseYear = 0
          THEN [newPrice |-> FZero,
                err |-> Err("BaseYearNotSet", country, 0, 0), calls |-> <<>>]
          ELSE
            LET base == YearInflation(countries, country, baseYear, targetMonth, order1)
                call1 == <<Call(country, baseYear, targetMonth, base)>>
            IN IF base.err # Nil
               THEN [newPrice |-> FZero, err |-> Wrap("BaseYear", base.err),
                     calls |-> call1]
               ELSE
                 LET target == YearInflation(countries, country, targetYear,
                                             targetMonth, order2)
                     call2 == Append(call1, Call(country, targetYear,
                                                   targetMonth, target))
                 IN IF target.err # Nil
                    THEN [newPrice |-> FZero, err |-> Wrap("target", target.err),
                          calls |-> call2]
                    ELSE
                      LET inflationFactor == FDiv(target.rate, base.rate)
                          newPrice == FMul(price, inflationFactor)
                      IN [newPrice |-> newPrice, err |-> Nil, calls |-> call2]

\* CompareInflationWithBaseYear without the test of baseYear against 0
CompareInflationWithBaseYearNoCheck(countries, country, targetYear, targetMonth, price, order1, order2) ==
  LET g == GetCountry(countries, country)
  IN IF g.err # Nil
     THEN [newPrice |-> FZero, err |-> g.err, calls |-> <<>>]
     ELSE
       LET baseYear == countries[g.idx].BaseYear
       IN IF FALSE
          THEN [newPrice |-> FZero,
                err |-> Err("BaseYearNotSet", country, 0, 0), calls |-> <<>>]
          ELSE
            LET base == YearInflation(countries, country, baseYear, 0, order1)
                call1 == <<Call(country, baseYear, 0, base)>>
            IN IF base.err # Nil
               THEN [newPrice |-> FZero, err |-> Wrap("BaseYear", base.err),
                     calls |-> call1]
               ELSE
                 LET target == YearInflation(countries, country, targetYear,
                                             targetMonth, order2)
                     call2 == Append(call1, Call(country, targetYear,
                                                   targetMonth, target))
                 IN IF target.err # Nil
                    THEN [newPrice |-> FZero, err |-> Wrap("target", target.err),
                          calls |-> call2]
                    ELSE
                      LET inflationFactor == FDiv(target.rate, base.rate)
                          newPrice == FMul(price, inflationFactor)
                      IN [newPrice |-> newPrice, err |-> Nil, calls |-> call2]

\* CompareInflationWithBaseYear that reports a failing target fetch under the
\* prefix of the base-year fetch
CompareInflationWithBaseYearSamePrefix(countries, country, targetYear, targetMonth, price, order1, order2) ==
  LET g == GetCountry(countries, country)
  IN IF g.err # Nil
     THEN [newPrice |-> FZero, err |-> g.err, calls |-> <<>>]
     ELSE
       LET baseYear == countries[g.idx].BaseYear
       IN IF baseYear = 0
          THEN [newPrice |-> FZero,
                err |-> Err("BaseYearNotSet", country, 0, 0), calls |-> <<>>]
          ELSE
            LET base == YearInflation(countries, country, baseYear, 0, order1)
                call1 == <<Call(country, baseYear, 0, base)>>
            IN IF base.err # Nil
               THEN [newPrice |-> FZero, err |-> Wrap("BaseYear", base.err),
                     calls |-> call1]
               ELSE
                 LET target == YearInflation(countries, country, targetYear,
                                             targetMonth, order2)
                     call2 == Append(call1, Call(country, targetYear,
                                                   targetMonth, target))
                 IN IF target.err # Nil
                    THEN [newPrice |-> FZero, err |-> Wrap("BaseYear", target.err),
                          calls |-> call2]
                    ELSE
                      LET inflationFactor == FDiv(target.rate, base.rate)
                          newPrice == FMul(price, inflationFactor)
                      IN [newPrice |-> newPrice, err |-> Nil, calls |-> call2]

\* func (d *Data) CompareInflationWithBaseYear(country, targetYear,
\* targetMonth, price) (float64, error)
CompareInflationWithBaseYear(countries, country, targetYear, targetMonth, price, order1, order2) ==
  LET g == GetCountry(countries, country)
  IN IF g.err # Nil
     THEN [newPrice |-> FZero, err |-> g.err, calls |-> <<>>]
     ELSE
       LET baseYear == countries[g.idx].BaseYear
       IN IF baseYear = 0
          THEN [newPrice |-> FZero,
                err |-> Err("BaseYearNotSet", country, 0, 0), calls |-> <<>>]
          ELSE
            LET base == YearInflation(countries, country, baseYear, 0, order1)
                call1 == <<Call(country, baseYear, 0, base)>>
            IN IF base.err # Nil
               THEN [newPrice |-> FZero, err |-> Wrap("BaseYear", base.err),
                     calls |-> call1]
               ELSE
                 LET target == YearInflation(countries, country, targetYear,
                                             targetMonth, order2)
                     call2 == Append(call1, Call(country, targetYear,
                                                   targetMonth, target))
                 IN IF target.err # Nil
                    THEN [newPrice |-> FZero, err |-> Wrap("target", target.err),
                          calls |-> call2]
                    ELSE
                      LET inflationFactor == FDiv(target.rate, base.rate)
                          newPrice == FMul(price, inflationFactor)
                      IN [newPrice |-> newPrice, err |-> Nil, calls |-> call2]

\* the range orders of the base-year call of CompareInflationWithBaseYear
BaseOrders(countries, country) ==
  LET g == GetCountry(countries, country)
  IN IF g.err = Nil /\ countries[g.idx].BaseYear # 0
     THEN RangeOrders(countries, country, countries[g.idx].BaseYear, 0)
     ELSE {<<>>}

\* ---------------------------------------------------------- strconv.Atoi
\* the value of a decimal digit
DigitOf == [c \in {DigitChars[i] : i \in DOMAIN DigitChars} |->
              (CHOOSE i \in DOMAIN DigitChars : DigitChars[i] = c) - 1]

IsDigits(s) == \A i \in DOMAIN s : s[i] \in DOMAIN DigitOf

\* the number written by a sequence of digits
RECURSIVE NatOf(_)
NatOf(s) ==
  IF s = <<>> THEN 0
  ELSE 10 * NatOf(SubSeq(s, 1, Len(s) - 1)) + DigitOf[s[Len(s)]]

\* strconv.Atoi(s): an optional sign and at least one decimal digit; every
\* other string is a syntax error, returned with the value 0.  (The strings
\* of the model are too short for a range error.)
Atoi(s) ==
  LET signed == s # <<>> /\ s[1] \in {"+", "-"}
      body == IF signed THEN Tail(s) ELSE s
  IN IF body = <<>> \/ ~IsDigits(body)
     THEN [n |-> 0, ok |-> FALSE]
     ELSE [n |-> IF signed /\ s[1] = "-" THEN -NatOf(body) ELSE NatOf(body),
           ok |-> TRUE]

\* ------------------------------------------- GetFirstDate and GetLastDate
\* the inner loop of GetFirstDate over the month keys of one year, in the
\* order in which the map yields them; month is the variable of the caller
RECURSIVE FirstMonthScan(_, _, _)
FirstMonthScan(order, j, month) ==
  IF j > Len(order) THEN month
  ELSE LET m == Atoi(order[j]).n
       IN FirstMonthScan(order, j + 1, IF month = 0 \/ m < month THEN m ELSE month)

\* the outer loop of GetFirstDate over the year keys, from the i-th on
RECURSIVE FirstDateScan(_, _, _, _, _)
FirstDateScan(yearOrder, monthOrders, i, year, month) ==
  IF i > Len(yearOrder) THEN [year |-> year, month |-> month]
  ELSE LET y == Atoi(yearOrder[i]).n
       IN IF year = 0 \/ y < year
          THEN FirstDateScan(yearOrder, monthOrders, i + 1, y,
                             FirstMonthScan(monthOrders[yearOrder[i]], 1, month))
          ELSE FirstDateScan(yearOrder, monthOrders, i + 1, year, month)

\* func (c *Country) GetFirstDate() (year int, month int)
\* The receiver's Inflation map is given by the order in which range yields
\* its keys: yearOrder are the year keys, monthOrders[y] the month keys of
\* year y (a nil map yields nothing).  The rates are not read.
GetFirstDate(yearOrder, monthOrders) ==
  FirstDateScan(yearOrder, monthOrders, 1, 0, 0)

\* the inner loop of GetLastDate
RECURSIVE LastMonthScan(_, _, _)
LastMonthScan(order, j, month) ==
  IF j > Len(order) THEN month
  ELSE LET m == Atoi(order[j]).n
       IN LastMonthScan(order, j + 1, IF m > month THEN m ELSE month)

\* the outer loop of GetLastDate
RECURSIVE LastDateScan(_, _, _, _, _)
LastDateScan(yearOrder, monthOrders, i, year, month) ==
  IF i > Len(yearOrder) THEN [year |-> year, month |-> month]
  ELSE LET y == Atoi(yearOrder[i]).n
       IN IF y > year
          THEN LastDateScan(yearOrder, monthOrders, i + 1, y,
                            LastMonthScan(monthOrders[yearOrder[i]], 1, month))
          ELSE LastDateScan(yearOrder, monthOrders, i + 1, year, month)

\* func (c *Country) GetLastDate() (year int, month int)
GetLastDate(yearOrder, monthOrders) ==
  LastDateScan(yearOrder, monthOrders, 1, 0, 0)

\* the orders in which the month maps of a country can be iterated: one
\* order per year
MonthOrders(inflation) ==
  { f \in [DOMAIN inflation -> UNION { MapOrders(inflation[y]) : y \in DOMAIN inflation }] :
      \A y \in DOMAIN inflation : f[y] \in MapOrders(inflation[y]) }

\* ------------------------------------------------- strconv, float64 text
RECURSIVE Pow10(_)
Pow10(k) == IF k <= 0 THEN 1 ELSE 10 * Pow10(k - 1)

\* the float nearest to num / den (num, den > 0), ties to even: the quotient
\* is taken with two bits more than the precision and a sticky bit
RoundRatio(num, den) ==
  LET d == Precision + 2 + BitLen(den) - BitLen(num)
      s == IF d > 0 THEN d ELSE 0
      n == num * Pow2(s)
      q == n \div den
      sticky == IF n % den = 0 THEN 0 ELSE 1
  IN FRound(2 * q + sticky, -s - 1)

\* the float nearest to d * 10^k (d >= 0): decimal to binary conversion of
\* strconv.ParseFloat
ParseDec(d, k) ==
  IF d = 0 THEN FZero
  ELSE IF k >= 0 THEN FRound(d * Pow10(k), 0)
  ELSE RoundRatio(d, Pow10(-k))

\* the set of positions of a character in a string
Positions(s, c) == { i \in DOMAIN s : s[i] = c }

\* strconv.ParseFloat(s, 64): "nan", "inf" and "infinity" in any case (the
\* last two with an optional sign), or an optional sign, digits, an optional
\* point and digits, with at least one digit.  Exponents, hexadecimal
\* mantissas and underscores are not modelled: the strings of the model hold
\* none of the characters e, p, x, _ in a place where Go would accept them.
ParseFloat(s) ==
  LET low == ToLower(s)
      signed == s # <<>> /\ s[1] \in {"+", "-"}
      neg == signed /\ s[1] = "-"
      body == IF signed THEN Tail(low) ELSE low
      dots == Positions(body, ".")
      dot == IF dots = {} THEN Len(body) + 1 ELSE CHOOSE i \in dots : TRUE
      int == SubSeq(body, 1, dot - 1)
      frac == SubSeq(body, dot + 1, Len(body))
  IN IF low = <<"n","a","n">> THEN [f |-> FNaN, ok |-> TRUE]
     ELSE IF body \in { <<"i","n","f">>, <<"i","n","f","i","n","i","t","y">> }
     THEN [f |-> FInf(IF neg THEN -1 ELSE 1), ok |-> TRUE]
     ELSE IF \/ Cardinality(dots) > 1
             \/ ~IsDigits(int) \/ ~IsDigits(frac)
             \/ int \o frac = <<>>
     THEN [f |-> FZero, ok |-> FALSE]
     ELSE LET x == ParseDec(NatOf(int \o frac), -Len(frac))
          IN [f |-> IF neg THEN FNeg(x) ELSE x, ok |-> TRUE]

\* the largest l with 10^l <= n / q  (n, q > 0)
RECURSIVE Log10Floor(_, _)
Log10Floor(n, q) ==
  IF n < q THEN Log10Floor(10 * n, q) - 1
  ELSE IF n < 10 * q THEN 0
  ELSE Log10Floor(n, 10 * q) + 1

\* a decimal d * 10^k without trailing zeros in d
RECURSIVE StripZeros(_, _)
StripZeros(d, k) ==
  IF d # 0 /\ d % 10 = 0 THEN StripZeros(d \div 10, k + 1)
  ELSE [d |-> d, k |-> k]

\* ShortestFrom that never emits more than one digit
ShortestOneDigit(x, n, q, l, digits) ==
  LET k == l
      num == IF k >= 0 THEN n ELSE n * Pow10(-k)
      den == IF k >= 0 THEN q * Pow10(k) ELSE q
  IN StripZeros(num \div den, k)

\* the decimal with the fewest digits, at least digits of them, that
\* ParseFloat converts back to x = n / q (x > 0, l = Log10Floor(n, q)); of two
\* decimals of the same length the one nearer to x (strconv's shortest
\* formatting, precision -1)
RECURSIVE ShortestFrom(_, _, _, _, _)
ShortestFrom(x, n, q, l, digits) ==
  LET k == l - (digits - 1)
      num == IF k >= 0 THEN n ELSE n * Pow10(-k)
      den == IF k >= 0 THEN q * Pow10(k) ELSE q
      lo == num \div den
      r == num % den
      near == IF 2 * r <= den THEN lo ELSE lo + 1
      far == IF 2 * r <= den THEN lo + 1 ELSE lo
  IN IF ParseDec(near, k) = x THEN StripZeros(near, k)
     ELSE IF ParseDec(far, k) = x THEN StripZeros(far, k)
     ELSE ShortestFrom(x, n, q, l, digits + 1)

\* the shortest decimal of a positive finite float
Shortest(x) ==
  LET n == IF x.e >= 0 THEN x.m * Pow2(x.e) ELSE x.m
      q == IF x.e >= 0 THEN 1 ELSE Pow2(-x.e)
  IN ShortestFrom(x, n, q, Log10Floor(n, q), 1)

\* a string of k zeros
Zeros(k) == [i \in 1..k |-> "0"]

\* d * 10^k in the format 'f': no exponent, a point only before a fraction
FormatDecimal(d, k) ==
  LET digits == FormatNat(d)
      n == Len(digits)
  IN IF k >= 0 THEN digits \o Zeros(k)
     ELSE IF n > -k
          THEN SubSeq(digits, 1, n + k) \o <<".">> \o SubSeq(digits, n + k + 1, n)
          ELSE <<"0", ".">> \o Zeros(-k - n) \o digits

\* the text encoding/json writes for a finite float64:
\* strconv.AppendFloat(b, f, 'f', -1, 64).  (The format 'e', used below 1e-6
\* and from 1e21 on, is out of the range of the rates of the model.)
FormatFloat(x) ==
  IF x.m = 0 THEN <<"0">>
  ELSE LET s == Shortest([x EXCEPT !.m = Abs(x.m)])
       IN (IF x.m < 0 THEN <<"-">> ELSE <<>>) \o FormatDecimal(s.d, s.k)

\* ---------------------------------------------------------- encoding/json
\* A JSON document is the tree of its values (the indentation that
\* MarshalIndent adds is not part of it).  s: the characters of a string or
\* of a number literal; keys, items: the members of an object in the order
\* in which they are written; items: the elements of an array.  The strings
\* of the model hold no character that JSON escapes.
JNode(t, s, keys, items) == [t |-> t, s |-> s, keys |-> keys, items |-> items]
JNull == JNode("null", <<>>, <<>>, <<>>)
JString(s) == JNode("string", s, <<>>, <<>>)
JNumber(s) == JNode("number", s, <<>>, <<>>)
JArray(items) == JNode("array", <<>>, <<>>, items)
JObject(keys, items) == JNode("object", <<>>, keys, items)

\* the characters of the model in the order of their bytes
ByteOrder == <<"\"", "+", ",", "-", ".", "/">> \o DigitChars \o UpperChars \o LowerChars
ByteOf == [c \in {ByteOrder[i] : i \in DOMAIN ByteOrder} |->
             CHOOSE i \in DOMAIN ByteOrder : ByteOrder[i] = c]

\* a < b for strings, byte by byte
RECURSIVE StrLess(_, _)
StrLess(a, b) ==
  IF b = <<>> THEN FALSE
  ELSE IF a = <<>> THEN TRUE
  ELSE IF a[1] # b[1] THEN ByteOf[a[1]] < ByteOf[b[1]]
  ELSE StrLess(Tail(a), Tail(b))

\* the keys of a map in the order in which encoding/json writes them
RECURSIVE SortKeys(_)
SortKeys(S) ==
  IF S = {} THEN <<>>
  ELSE LET least == CHOOSE x \in S : \A y \in S : x = y \/ StrLess(x, y)
       IN <<least>> \o SortKeys(S \ {least})

\* map[string]float64
MarshalMonths(months) ==
  LET keys == SortKeys(DOMAIN months)
  IN JObject(keys, [i \in DOMAIN keys |-> JNumber(FormatFloat(months[keys[i]]))])

\* map[string]map[string]float64: a nil map is written as null
MarshalInflation(c) ==
  IF c.InflationNil THEN JNull
  ELSE LET keys == SortKeys(DOMAIN c.Inflation)
       IN JObject(keys, [i \in DOMAIN keys |-> MarshalMonths(c.Inflation[keys[i]])])

\* []string: a nil slice is written as null
MarshalAliases(c) ==
  IF c.AliasesNil THEN JNull
  ELSE JArray([i \in DOMAIN c.Aliases |-> JString(c.Aliases[i])])

\* type Country: the fields in the order of the declaration, under the names
\* of their json tags, none of them omitted
MarshalCountry(c) ==
  JObject(<< <<"n","a","m","e">>, <<"a","l","i","a","s","e","s">>, <<"c","o","d","e">>,
             <<"b","a","s","e","_","y","e","a","r">>,
             <<"i","n","f","l","a","t","i","o","n">> >>,
          << JString(c.Name), MarshalAliases(c), JString(c.Code),
             JNumber(FormatInt(c.BaseYear)), MarshalInflation(c) >>)

\* every rate of the table is a finite number
Marshallable(table) ==
  \A i \in DOMAIN table :
    \A y \in DOMAIN table[i].Inflation :
      \A m \in DOMAIN table[i].Inflation[y] : FIsFinite(table[i].Inflation[y][m])

\* json.MarshalIndent(data, "", "  "): an error (UnsupportedValueError) when
\* a rate is NaN or infinite
Marshal(table) ==
  IF Marshallable(table)
  THEN [doc |-> JObject(<< <<"c","o","u","n","t","r","i","e","s">> >>,
                        << JArray([i \in DOMAIN table |-> MarshalCountry(table[i])]) >>),
        ok |-> TRUE]
  ELSE [doc |-> JNull, ok |-> FALSE]

\* the member of an object that a struct field or a map key receives: the
\* last one written under the key; JNull when there is none (a missing
\* member and null both leave the zero value)
Member(obj, key) ==
  LET at == Positions(obj.keys, key)
  IN IF obj.t # "object" \/ at = {} THEN JNull
     ELSE obj.items[CHOOSE i \in at : \A j \in at : j <= i]

\* the value of a member is null, or of the JSON type t
IsA(node, t) == node.t \in {"null", t}

UnmarshalMonths(node) ==
  [m \in {node.keys[i] : i \in DOMAIN node.keys} |-> ParseFloat(Member(node, m).s).f]

UnmarshalInflation(node) ==
  [y \in {node.keys[i] : i \in DOMAIN node.keys} |-> UnmarshalMonths(Member(node, y))]

UnmarshalCountry(node) ==
  LET aliases == Member(node, <<"a","l","i","a","s","e","s">>)
      inflation == Member(node, <<"i","n","f","l","a","t","i","o","n">>)
  IN [Name |-> Member(node, <<"n","a","m","e">>).s,
      Aliases |-> [i \in DOMAIN aliases.items |-> aliases.items[i].s],
      Code |-> Member(node, <<"c","o","d","e">>).s,
      BaseYear |-> Atoi(Member(node, <<"b","a","s","e","_","y","e","a","r">>).s).n,
      Inflation |-> UnmarshalInflation(inflation),
      AliasesNil |-> aliases.t = "null",
      InflationNil |-> inflation.t = "null"]

\* the document has the types of Data: an array of objects whose members
\* are strings, an array of strings, an integer and an object of objects of
\* numbers (each of them can be null or missing)
WellTyped(doc) ==
  LET list == Member(doc, <<"c","o","u","n","t","r","i","e","s">>)
  IN /\ doc.t = "object"
     /\ list.t = "array"
     /\ \A i \in DOMAIN list.items :
          LET c == list.items[i]
              aliases == Member(c, <<"a","l","i","a","s","e","s">>)
              inflation == Member(c, <<"i","n","f","l","a","t","i","o","n">>)
              baseYear == Member(c, <<"b","a","s","e","_","y","e","a","r">>)
          IN /\ c.t = "object"
             /\ IsA(Member(c, <<"n","a","m","e">>), "string")
             /\ IsA(Member(c, <<"c","o","d","e">>), "string")
             /\ IsA(aliases, "array")
             /\ \A j \in DOMAIN aliases.items : aliases.items[j].t = "string"
             /\ IsA(baseYear, "number")
             /\ baseYear.t = "number" => Atoi(baseYear.s).ok
             /\ IsA(inflation, "object")
             /\ \A y \in DOMAIN inflation.items :
                  /\ inflation.items[y].t = "object"
                  /\ \A m \in DOMAIN inflation.items[y].items :
                       /\ inflation.items[y].items[m].t = "number"
                       /\ ParseFloat(inflation.items[y].items[m].s).ok

\* json.NewDecoder(file).Decode(&data) of LoadInflationData: the table of
\* the document, or an error when a value has not the type of its field.
\* (The documents of the model have an array of countries and objects of
\* months: a nil Countries slice and nil month maps are not modelled.)
Unmarshal(doc) ==
  IF WellTyped(doc)
  THEN LET list == Member(doc, <<"c","o","u","n","t","r","i","e","s">>)
       IN [table |-> [i \in DOMAIN list.items |-> UnmarshalCountry(list.items[i])],
           ok |-> TRUE]
  ELSE [table |-> <<>>, ok |-> FALSE]

\* data, err := LoadInflationData(source, cache) for a local file: os.Open
\* fails when there is no file, Decode when the document is ill-typed
LoadInflationData(f) ==
  IF f = <<>> THEN [table |-> <<>>, ok |-> FALSE] ELSE Unmarshal(f[1])

\* ------------------------------------------------------------ parseDate
\* strings.Split(s, sep) for a separator of one character
RECURSIVE Split(_, _)
Split(s, sep) ==
  IF Positions(s, sep) = {} THEN <<s>>
  ELSE LET i == CHOOSE j \in Positions(s, sep) : \A k \in Positions(s, sep) : j <= k
       IN <<SubSeq(s, 1, i - 1)>> \o Split(SubSeq(s, i + 1, Len(s)), sep)

\* func parseDate(dateStr string) (int, int, error)
\* The errors: the strconv error of a 4-character string, "invalid date
\* format: %s", "invalid year in date: %v", "invalid month in date: %v".
parseDate(dateStr) ==
  IF Len(dateStr) = 4
  THEN IF ~Atoi(dateStr).ok
       THEN [year |-> 0, month |-> 0, err |-> Err("AtoiSyntax", dateStr, 0, 0)]
       ELSE [year |-> Atoi(dateStr).n, month |-> 0, err |-> Nil]
  ELSE IF Len(dateStr) = 7
  THEN LET parts == Split(dateStr, "-")
       IN IF Len(parts) # 2
          THEN [year |-> 0, month |-> 0, err |-> Err("InvalidDateFormat", dateStr, 0, 0)]
          ELSE IF ~Atoi(parts[1]).ok
          THEN [year |-> 0, month |-> 0, err |-> Err("InvalidYearInDate", parts[1], 0, 0)]
          ELSE IF ~Atoi(parts[2]).ok \/ Atoi(parts[2]).n < 1 \/ Atoi(parts[2]).n > 12
          THEN [year |-> 0, month |-> 0, err |-> Err("InvalidMonthInDate", parts[2], 0, 0)]
          ELSE [year |-> Atoi(parts[1]).n, month |-> Atoi(parts[2]).n, err |-> Nil]
  ELSE [year |-> 0, month |-> 0, err |-> Err("InvalidDateFormat", dateStr, 0, 0)]

\* ------------------------------------------------------- the import
\* the value of the option --base-year when it is not given
DefaultBaseYear == 2015

\* strings.Trim(s, "\""): without the quotes at both ends
RECURSIVE TrimQuotes(_)
TrimQuotes(s) ==
  IF s # <<>> /\ s[1] = "\"" THEN TrimQuotes(Tail(s))
  ELSE IF s # <<>> /\ s[Len(s)] = "\"" THEN TrimQuotes(SubSeq(s, 1, Len(s) - 1))
  ELSE s

\* strings.ReplaceAll(s, ",", ".")
CommaToPoint(s) == [i \in DOMAIN s |-> IF s[i] = "," THEN "." ELSE s[i]]

\* time.Parse("2006-01", s): four digits, "-", two digits that are a month
\* 01..12, and nothing else
TimeParse(s) ==
  IF /\ Len(s) = 7 /\ s[5] = "-"
     /\ IsDigits(SubSeq(s, 1, 4)) /\ IsDigits(SubSeq(s, 6, 7))
     /\ NatOf(SubSeq(s, 6, 7)) \in 1..12
  THEN [year |-> NatOf(SubSeq(s, 1, 4)), month |-> NatOf(SubSeq(s, 6, 7)), ok |-> TRUE]
  ELSE [year |-> 0, month |-> 0, ok |-> FALSE]

\* the index of the column of a name in the header record (the last one
\* when several match), 0 when there is none
HeaderIndex(headers, name) ==
  LET at == { i \in DOMAIN headers : ToLower(headers[i]) = name }
  IN IF at = {} THEN 0 ELSE CHOOSE i \in at : \A j \in at : j <= i

\* c.Inflation[yearStr][monthStr] = value, with the maps made when missing
SetRate(c, yearStr, monthStr, value) ==
  LET months == IF yearStr \in DOMAIN c.Inflation THEN c.Inflation[yearStr] ELSE EmptyMap
  IN [c EXCEPT !.Inflation = (yearStr :> ((monthStr :> value) @@ months)) @@ c.Inflation,
               !.InflationNil = FALSE]

\* for _, record := range records[1:] { ... }: the rows from the i-th record
\* on, applied to the country c
RECURSIVE ImportRows(_, _, _, _, _, _, _)
ImportRows(c, records, i, dateIdx, valueIdx, successfulImports, skippedImports) ==
  IF i > Len(records)
  THEN [c |-> c, successfulImports |-> successfulImports, skippedImports |-> skippedImports]
  ELSE LET dateStr == records[i][dateIdx]
           date == TimeParse(SubSeq(dateStr, 1, 7))
           value == ParseFloat(CommaToPoint(TrimQuotes(records[i][valueIdx])))
       IN IF Len(dateStr) < 7 \/ ~date.ok \/ ~value.ok
          THEN ImportRows(c, records, i + 1, dateIdx, valueIdx,
                          successfulImports, skippedImports + 1)
          ELSE ImportRows(SetRate(c, FormatInt(date.year), FormatInt02(date.month), value.f),
                          records, i + 1, dateIdx, valueIdx,
                          successfulImports + 1, skippedImports)

\* the resolve-or-create step that gives the option to every resolved country
ResolveOrCreateOverwrite(table, country, baseYear) ==
  LET g == GetCountry(table, country)
      created == Append(table, Country(country, <<>>, country, baseYear, EmptyMap))
  IN IF g.err # Nil
     THEN [table |-> created, idx |-> GetCountry(created, country).idx,
           err |-> GetCountry(created, country).err, created |-> TRUE]
     ELSE [table |-> [table EXCEPT ![g.idx].BaseYear = baseYear],
           idx |-> g.idx, err |-> Nil, created |-> FALSE]

\* c, err := loader.Data.GetCountry(*country) and the two branches that
\* follow: a new last entry, or the base year of the entry found when it is 0
ResolveOrCreate(table, country, baseYear) ==
  LET g == GetCountry(table, country)
      created == Append(table, Country(country, <<>>, country, baseYear, EmptyMap))
  IN IF g.err # Nil
     THEN [table |-> created, idx |-> GetCountry(created, country).idx,
           err |-> GetCountry(created, country).err, created |-> TRUE]
     ELSE [table |-> IF table[g.idx].BaseYear = 0
                     THEN [table EXCEPT ![g.idx].BaseYear = baseYear]
                     ELSE table,
           idx |-> g.idx, err |-> Nil, created |-> FALSE]

\* csv.Reader.ReadAll: every record has the number of fields of the first
ReadAllOk(records) == \A i \in DOMAIN records : Len(records[i]) = Len(records[1])

\* ------------------------------------------------------ the input domains
\* rates stored in the table: 2^(Precision-1), 1/2 and -1/2 (and 0)
RateBig == FInt(Pow2(Precision - 1))
RateHalf == FFrac(1, 1)
RateNegHalf == FFrac(-1, 1)

\* year -> month -> rate tables (createTestData, scaled down).
\* One year with three months whose float sum depends on the order in which
\* they are added; its January is stored under the unpadded key "1" only.
InflationThreeMonths ==
  <<"2","0","1","5">> :> ((<<"1">> :> RateBig) @@ (<<"1","1">> :> RateHalf)
                          @@ (<<"1","2">> :> RateHalf))

\* A year without months and a year whose two rates average to zero.
InflationZeroAverage ==
  (<<"2","0","1","5">> :> EmptyMap)
    @@ (<<"2","0","1","8">> :> ((<<"0","1">> :> RateHalf) @@ (<<"1","2">> :> RateNegHalf)))

\* the countries of the pool: the first answers to "Aa", "A", "X" and "aB"
\* (with no base year, with a base year that has data, with a base year whose
\* average is zero, with a base year without months), the second to "Bb"
\* and "B" (no aliases, no base year)
CountryPool ==
  { Country(<<"A","a">>, << <<"X">>, <<"a","B">> >>, <<"A">>, 0, InflationThreeMonths),
    Country(<<"A","a">>, << <<"X">>, <<"a","B">> >>, <<"A">>, 2015, InflationThreeMonths),
    Country(<<"A","a">>, << <<"X">>, <<"a","B">> >>, <<"A">>, 2018, InflationZeroAverage),
    Country(<<"A","a">>, << <<"X">>, <<"a","B">> >>, <<"A">>, 2015, InflationZeroAverage),
    Country(<<"B","b">>, <<>>, <<"B">>, 0, InflationZeroAverage) }

\* the tables LoadData can produce, up to MaxCountries countries
Tables == UNION { [1..n -> CountryPool] : n \in 0..MaxCountries }

Queries == { <<"a","A">>, <<"A","b">>, <<"b">> }
Years == {2015, 2018}
Months == {-1, 0, 1, 12, 13}
Prices == {FZero, FInt(-3), FInt(5)}

\* ---------------------------------------------------------------- state
\* countries: Data.Countries; op, args: the last call and its arguments;
\* ret: what it returned; calls: the YearInflation calls it made
\* countries: Data.Countries of the running program; file: the JSON file on
\* disk (<<>> when there is none, <<document>> otherwise); op, args, ret: the
\* last operation, its arguments and its results; calls: the YearInflation
\* calls it made
VARIABLES countries, file, op, args, ret, calls

vars == <<countries, file, op, args, ret, calls>>

Args(query, year, month, year2, month2, price) ==
  [query |-> query, year |-> year, month |-> month,
   year2 |-> year2, month2 |-> month2, price |-> price]

Ret(idx, v1, v2, err) == [idx |-> idx, v1 |-> v1, v2 |-> v2, err |-> err]

Init ==
  /\ countries \in Tables
  /\ file = <<>>
  /\ op = "none"
  /\ args = Args(<<>>, 0, 0, 0, 0, FZero)
  /\ ret = Ret(0, FZero, FZero, Nil)
  /\ calls = <<>>

\* country, err := d.GetCountry(query)
DoGetCountry ==
  /\ op = "none"
  /\ \E q \in Queries :
    \E r \in {GetCountry(countries, q)} :
       /\ op' = "GetCountry"
       /\ args' = Args(q, 0, 0, 0, 0, FZero)
       /\ ret' = Ret(r.idx, FZero, FZero, r.err)
       /\ calls' = <<>>
       /\ UNCHANGED <<countries, file>>

\* rate, err := d.YearInflation(country, year, month)
DoYearInflation ==
  /\ op = "none"
  /\ \E q \in Queries, y \in Years, m \in Months :
    \E order \in RangeOrders(countries, q, y, m) :
      \E r \in {YearInflation(countries, q, y, m, order)} :
         /\ op' = "YearInflation"
         /\ args' = Args(q, y, m, 0, 0, FZero)
         /\ ret' = Ret(0, r.rate, FZero, r.err)
         /\ calls' = <<Call(q, y, m, r)>>
         /\ UNCHANGED <<countries, file>>

\* newPrice, cumulativeRate, err := d.CompareInflation(...)
DoCompareInflation ==
  /\ op = "none"
  /\ \E q \in Queries, y1 \in Years, m1 \in Months, y2 \in Years, m2 \in Months,
     p \in Prices :
    \E order1 \in RangeOrders(countries, q, y1, m1),
       order2 \in RangeOrders(countries, q, y2, m2) :
      \E r \in {CompareInflation(countries, q, y1, m1, y2, m2, p, order1, order2)} :
         /\ op' = "CompareInflation"
         /\ args' = Args(q, y1, m1, y2, m2, p)
         /\ ret' = Ret(0, r.newPrice, r.cumulativeRate, r.err)
         /\ calls' = r.calls
         /\ UNCHANGED <<countries, file>>

\* newPrice, err := d.CompareInflationWithBaseYear(...)
DoCompareInflationWithBaseYear ==
  /\ op = "none"
  /\ \E q \in Queries, y \in Years, m \in Months, p \in Prices :
    \E order1 \in BaseOrders(countries, q),
       order2 \in RangeOrders(countries, q, y, m) :
      \E r \in {CompareInflationWithBaseYear(countries, q, y, m, p, order1, order2)} :
         /\ op' = "CompareInflationWithBaseYear"
         /\ args' = Args(q, y, m, 0, 0, p)
         /\ ret' = Ret(0, r.newPrice, FZero, r.err)
         /\ calls' = r.calls
         /\ UNCHANGED <<countries, file>>

\* the caller has consumed the result; the next call can be made
Return ==
  /\ op # "none"
  /\ op' = "none"
  /\ args' = Args(<<>>, 0, 0, 0, 0, FZero)
  /\ ret' = Ret(0, FZero, FZero, Nil)
  /\ calls' = <<>>
  /\ UNCHANGED <<countries, file>>

Next ==
  \/ DoGetCountry
  \/ DoYearInflation
  \/ DoCompareInflation
  \/ DoCompareInflationWithBaseYear
  \/ Return

Spec == Init /\ [][Next]_vars

\* ------------------------------------------------- the date searches
\* year keys and month maps of the tables of GetFirstDate / GetLastDate:
\* a year can be absent, hold no month, one month or two months that are not
\* adjacent
YearKeyPool == << <<"2","0","1","5">>, <<"2","0","1","8">>, <<"2","0","2","0">>,
                 <<"2","0","2","3">> >>
DateYears ==
  { YearKeyPool[i] : i \in { j \in DOMAIN YearKeyPool : j <= MaxYears } }
MonthMaps ==
  { EmptyMap,
    <<"0","3">> :> RateHalf,
    (<<"0","6">> :> RateHalf) @@ (<<"1","2">> :> RateBig) }
DateInflations == UNION { [Y -> MonthMaps] : Y \in SUBSET DateYears }
DateTables ==
  { << Country(<<"A","a">>, <<>>, <<"A">>, 0, inflation) >> :
      inflation \in DateInflations }

DateArgs(idx, yearOrder, monthOrders) ==
  [idx |-> idx, yearOrder |-> yearOrder, monthOrders |-> monthOrders]

InitDates ==
  /\ countries \in DateTables
  /\ file = <<>>
  /\ op = "none"
  /\ args = DateArgs(0, <<>>, EmptyMap)
  /\ ret = [year |-> 0, month |-> 0]
  /\ calls = <<>>

\* year, month := c.GetFirstDate() on a country of the table
DoGetFirstDate ==
  /\ op = "none"
  /\ \E i \in DOMAIN countries :
    \E yearOrder \in MapOrders(countries[i].Inflation),
       monthOrders \in MonthOrders(countries[i].Inflation) :
         /\ op' = "GetFirstDate"
         /\ args' = DateArgs(i, yearOrder, monthOrders)
         /\ ret' = GetFirstDate(yearOrder, monthOrders)
         /\ UNCHANGED <<countries, file, calls>>

\* year, month := c.GetLastDate() on a country of the table
DoGetLastDate ==
  /\ op = "none"
  /\ \E i \in DOMAIN countries :
    \E yearOrder \in MapOrders(countries[i].Inflation),
       monthOrders \in MonthOrders(countries[i].Inflation) :
         /\ op' = "GetLastDate"
         /\ args' = DateArgs(i, yearOrder, monthOrders)
         /\ ret' = GetLastDate(yearOrder, monthOrders)
         /\ UNCHANGED <<countries, file, calls>>

NextDates ==
  \/ DoGetFirstDate
  \/ DoGetLastDate

SpecDates == InitDates /\ [][NextDates]_vars

\* ------------------------------------------------- saving and loading
\* rates that are not binary fractions of few bits: 0.3 and 9.7
InflationDecimals ==
  <<"2","0","2","0">> :> ((<<"0","3">> :> ParseDec(3, -1)) @@ (<<"1","0">> :> ParseDec(97, -1)))

\* a rate that encoding/json refuses
InflationNaN == <<"2","0","2","0">> :> (<<"0","1">> :> FNaN)

\* a country whose Aliases / Inflation were never set
WithNilAliases(c) == [c EXCEPT !.Aliases = <<>>, !.AliasesNil = TRUE]
WithNilInflation(c) == [c EXCEPT !.Inflation = EmptyMap, !.InflationNil = TRUE]

\* the countries of the tables that are saved: with aliases and rates, with
\* an empty alias list, with an empty rate table, with nothing set, with a
\* rate that is not a number
StoreCountries ==
  { Country(<<"A","a">>, << <<"X">>, <<"a","B">> >>, <<"A">>, 2015, InflationThreeMonths),
    Country(<<"E","e">>, <<>>, <<"E">>, 0, InflationNaN),
    Country(<<"B","b">>, <<>>, <<"B">>, 0, InflationZeroAverage),
    Country(<<"C","c">>, << <<"Y">> >>, <<"C">>, 2018, InflationDecimals),
    Country(<<"D","d">>, <<>>, <<"D">>, 2015, EmptyMap),
    WithNilInflation(WithNilAliases(Country(<<"D","d">>, <<>>, <<"D">>, 0, EmptyMap))) }

StoreTables == UNION { [1..n -> StoreCountries] : n \in 0..MaxCountries }

\* documents that were not written by SaveInflationData: a country without
\* the members aliases and inflation, and a list of countries that is a string
DocWithoutMembers ==
  JObject(<< <<"c","o","u","n","t","r","i","e","s">> >>,
          << JArray(<< JObject(<< <<"n","a","m","e">>, <<"c","o","d","e">>,
                                  <<"b","a","s","e","_","y","e","a","r">> >>,
                               << JString(<<"D","d">>), JString(<<"D">>),
                                  JNumber(<<"2","0","1","5">>) >>) >>) >>)
DocIllTyped ==
  JObject(<< <<"c","o","u","n","t","r","i","e","s">> >>, << JString(<<"x">>) >>)

StoreArgs(written) == [written |-> written]
StoreRet(ok, before) == [ok |-> ok, before |-> before]

\* written: the table of the last successful SaveInflationData (<<>> when the
\* file was not written by it); before: the table the Loader held
InitStore ==
  /\ countries \in StoreTables
  /\ file \in {<<>>, <<DocWithoutMembers>>, <<DocIllTyped>>}
  /\ op = "none"
  /\ args = StoreArgs(<<>>)
  /\ ret = StoreRet(TRUE, <<>>)
  /\ calls = <<>>

\* err := SaveInflationData(data, filename): nothing is written when
\* MarshalIndent fails
DoSave ==
  \E r \in {Marshal(countries)} :
     /\ op' = "SaveInflationData"
     /\ file' = IF r.ok THEN <<r.doc>> ELSE file
     /\ args' = IF r.ok THEN StoreArgs(<<countries>>) ELSE args
     /\ ret' = StoreRet(r.ok, countries)
     /\ UNCHANGED <<countries, calls>>

\* loader := inflation.Loader{}: a Loader that holds no table
NewLoader ==
  /\ op # "NewLoader"
  /\ op' = "NewLoader"
  /\ countries' = <<>>
  /\ ret' = StoreRet(TRUE, countries)
  /\ UNCHANGED <<file, args, calls>>

\* err := loader.LoadData(source, false) on the file: l.Data is replaced only
\* when the file opens and decodes
DoLoad ==
  \E r \in {LoadInflationData(file)} :
     /\ op' = "LoadData"
     /\ countries' = IF r.ok THEN r.table ELSE countries
     /\ ret' = StoreRet(r.ok, countries)
     /\ UNCHANGED <<file, args, calls>>

NextStore ==
  \/ DoSave
  \/ NewLoader
  \/ DoLoad

SpecStore == InitStore /\ [][NextStore]_vars

\* -------------------------------------------------- the query commands
\* the JSON files of the commands: tables of up to MaxCountries countries
\* out of three (with a base year; without base year and aliases; with
\* nothing set), or no file
CliCountries ==
  { Country(<<"A","a">>, << <<"X">>, <<"a","B">> >>, <<"A">>, 2015, InflationThreeMonths),
    Country(<<"B","b">>, <<>>, <<"B">>, 0, InflationZeroAverage),
    WithNilInflation(WithNilAliases(Country(<<"D","d">>, <<>>, <<"D">>, 0, EmptyMap))) }
CliTables == UNION { [1..n -> CliCountries] : n \in 0..MaxCountries }
CliFiles == {<<>>} \cup { <<Marshal(t).doc>> : t \in CliTables }

\* the COUNTRY arguments: a name, a code, a country of no table, none
CliQueries == { <<"a","A">>, <<"b">>, <<"Z","z">>, <<>> }

\* the DATE arguments
DateStrings ==
  { <<>>,
    <<"2","0","1","5">>,
    <<"2","0","1","8">>,
    <<"+","2","0","1">>,
    <<"-","2","0","1">>,
    <<"2","0","x","5">>,
    <<"2","0","1">>,
    <<"2","0","1","5","5">>,
    <<"2","0","1","5","-","0","1">>,
    <<"2","0","1","5","-","1","2">>,
    <<"2","0","1","8","-","1","2">>,
    <<"2","0","1","5","-","0","0">>,
    <<"2","0","1","5","-","1","3">>,
    <<"2","0","1","5","-","1","x">>,
    <<"2","0","1","5","-","+","1">>,
    <<"2","0","1","5","1","-","2">>,
    <<"2","0","1","-","0","1","2">>,
    <<"2","0","1","5","/","0","1">>,
    <<"2","0","1","5","-","-","1">>,
    <<"-","0","1","5","-","0","1">>,
    <<"2","0","1","5","-","1">>,
    <<"x","0","1","5","-","0","1">> }
\* the TO_DATE arguments of compare
ToDateStrings == { <<"2","0","1","5">>, <<"2","0","1","5","-","1","2">>, <<"2","0","1","5","-","1","3">> }
\* the PRICE arguments
CliPrices == {FZero, FInt(5), FNeg(FInt(5))}

CliArgs(country, dateStr, dateStr2, price) ==
  [country |-> country, dateStr |-> dateStr, dateStr2 |-> dateStr2, price |-> price]

\* what a command left behind: msg is the message it ended with ("Help" for
\* the usage text, "Printed" for the result, else the log.Fatalf that ended
\* it), loadCalled whether LoadData was called, dates the results of the
\* parseDate calls in the order in which they were made
CliRet(msg, loadCalled, dates, v1, v2, err) ==
  [msg |-> msg, loadCalled |-> loadCalled, dates |-> dates,
   v1 |-> v1, v2 |-> v2, err |-> err]

\* the Data of the Loader, the YearInflation calls and the end of a command
CliOut(table, log, r) == [countries |-> table, calls |-> log, ret |-> r]

InitCli ==
  /\ countries = <<>>
  /\ file \in CliFiles
  /\ op = "none"
  /\ args = CliArgs(<<>>, <<>>, <<>>, FZero)
  /\ ret = CliRet("none", FALSE, <<>>, FZero, FZero, Nil)
  /\ calls = <<>>

\* The stages of a command are operators that yield the set of its possible
\* ends; a stage hands the value it computed to the next one.

\* the command year from the call of YearInflation on
YearLoaded(l, country, d) ==
  IF ~l.ok
  THEN {CliOut(<<>>, <<>>, CliRet("LoadError", TRUE, <<d>>, FZero, FZero, Nil))}
  ELSE { CliOut(l.table, <<Call(country, d.year, d.month, r)>>,
                CliRet(IF r.err = Nil THEN "Printed" ELSE "CoreError",
                       TRUE, <<d>>, r.rate, FZero, r.err)) :
         r \in { YearInflation(l.table, country, d.year, d.month, order) :
                 order \in RangeOrders(l.table, country, d.year, d.month) } }

\* the command year from the check of the parsed date on
YearParsed(f, country, d) ==
  IF d.err # Nil
  THEN {CliOut(<<>>, <<>>, CliRet("InvalidDate", FALSE, <<d>>, FZero, FZero, d.err))}
  ELSE UNION { YearLoaded(l, country, d) : l \in {LoadInflationData(f)} }

\* the action of the command year
YearCommand(f, country, dateStr) ==
  IF country = <<>> \/ dateStr = <<>>
  THEN {CliOut(<<>>, <<>>, CliRet("Help", FALSE, <<>>, FZero, FZero, Nil))}
  ELSE UNION { YearParsed(f, country, d) : d \in {parseDate(dateStr)} }

CmdYear ==
  /\ op = "none"
  /\ \E country \in CliQueries, dateStr \in DateStrings :
    \E out \in YearCommand(file, country, dateStr) :
       /\ op' = "year"
       /\ args' = CliArgs(country, dateStr, <<>>, FZero)
       /\ countries' = out.countries
       /\ calls' = out.calls
       /\ ret' = out.ret
       /\ UNCHANGED file

\* the command compare from the call of CompareInflation on
CompareLoaded(l, country, from, to, price) ==
  IF ~l.ok
  THEN {CliOut(<<>>, <<>>, CliRet("LoadError", TRUE, <<from, to>>, FZero, FZero, Nil))}
  ELSE { CliOut(l.table, r.calls,
                CliRet(IF r.err = Nil THEN "Printed" ELSE "CoreError",
                       TRUE, <<from, to>>, r.newPrice, r.cumulativeRate, r.err)) :
         r \in { CompareInflation(l.table, country, from.year, from.month,
                                  to.year, to.month, price, order1, order2) :
                 order1 \in RangeOrders(l.table, country, from.year, from.month),
                 order2 \in RangeOrders(l.table, country, to.year, to.month) } }

\* the command compare from the check of FROM_DATE on (to: TO_DATE parsed,
\* looked at only when FROM_DATE is a date)
CompareParsed(f, country, from, to, price) ==
  IF from.err # Nil
  THEN {CliOut(<<>>, <<>>, CliRet("InvalidDate", FALSE, <<from>>, FZero, FZero, from.err))}
  ELSE IF to.err # Nil
  THEN {CliOut(<<>>, <<>>, CliRet("InvalidDate", FALSE, <<from, to>>, FZero, FZero, to.err))}
  ELSE UNION { CompareLoaded(l, country, from, to, price) : l \in {LoadInflationData(f)} }

\* the command compare without the test of PRICE against 0
CompareCommandAnyPrice(f, country, fromDateStr, toDateStr, price) ==
  IF country = <<>> \/ fromDateStr = <<>> \/ toDateStr = <<>>
  THEN {CliOut(<<>>, <<>>, CliRet("Help", FALSE, <<>>, FZero, FZero, Nil))}
  ELSE UNION { CompareParsed(f, country, from, to, price) :
               from \in {parseDate(fromDateStr)}, to \in {parseDate(toDateStr)} }

\* the action of the command compare
CompareCommand(f, country, fromDateStr, toDateStr, price) ==
  IF country = <<>> \/ fromDateStr = <<>> \/ toDateStr = <<>> \/ FIsZero(price)
  THEN {CliOut(<<>>, <<>>, CliRet("Help", FALSE, <<>>, FZero, FZero, Nil))}
  ELSE UNION { CompareParsed(f, country, from, to, price) :
               from \in {parseDate(fromDateStr)}, to \in {parseDate(toDateStr)} }

CmdCompare ==
  /\ op = "none"
  /\ \E country \in CliQueries, fromDateStr \in DateStrings,
        toDateStr \in ToDateStrings, price \in CliPrices :
    \E out \in CompareCommand(file, country, fromDateStr, toDateStr, price) :
       /\ op' = "compare"
       /\ args' = CliArgs(country, fromDateStr, toDateStr, price)
       /\ countries' = out.countries
       /\ calls' = out.calls
       /\ ret' = out.ret
       /\ UNCHANGED file

\* the command compareWithBaseYear from the call of
\* CompareInflationWithBaseYear on (the GetCountry call that follows a
\* successful comparison only reads the base year for the output)
CompareWithBaseYearLoaded(l, country, target, price) ==
  IF ~l.ok
  THEN {CliOut(<<>>, <<>>, CliRet("LoadError", TRUE, <<target>>, FZero, FZero, Nil))}
  ELSE { CliOut(l.table, r.calls,
                CliRet(IF r.err = Nil THEN "Printed" ELSE "CoreError",
                       TRUE, <<target>>, r.newPrice, FZero, r.err)) :
         r \in { CompareInflationWithBaseYear(l.table, country, target.year,
                                              target.month, price, order1, order2) :
                 order1 \in BaseOrders(l.table, country),
                 order2 \in RangeOrders(l.table, country, target.year, target.month) } }

\* the command compareWithBaseYear from the check of the parsed date on
CompareWithBaseYearParsed(f, country, target, price) ==
  IF target.err # Nil
  THEN {CliOut(<<>>, <<>>, CliRet("InvalidDate", FALSE, <<target>>, FZero, FZero, target.err))}
  ELSE UNION { CompareWithBaseYearLoaded(l, country, target, price) :
               l \in {LoadInflationData(f)} }

\* the action of the command compareWithBaseYear
CompareWithBaseYearCommand(f, country, targetDateStr, price) ==
  IF country = <<>> \/ targetDateStr = <<>> \/ FIsZero(price)
  THEN {CliOut(<<>>, <<>>, CliRet("Help", FALSE, <<>>, FZero, FZero, Nil))}
  ELSE UNION { CompareWithBaseYearParsed(f, country, target, price) :
               target \in {parseDate(targetDateStr)} }

CmdCompareWithBaseYear ==
  /\ op = "none"
  /\ \E country \in CliQueries, targetDateStr \in DateStrings, price \in CliPrices :
    \E out \in CompareWithBaseYearCommand(file, country, targetDateStr, price) :
       /\ op' = "compareWithBaseYear"
       /\ args' = CliArgs(country, targetDateStr, <<>>, price)
       /\ countries' = out.countries
       /\ calls' = out.calls
       /\ ret' = out.ret
       /\ UNCHANGED file

\* ------------------------------------------------------- the import
\* the data rows of the CSV files, as (date, value): three rows that parse
\* (one with a day and a quoted decimal comma, two for the same month), a
\* date that is too short, a month 13, a value that is no number and the
\* value NaN
RowPool ==
  { << <<"2","0","1","5","-","0","1">>, <<"0",".","5">> >>,
    << <<"2","0","1","5","-","1","2","-","3","1">>, <<"\"","1",",","5","\"">> >>,
    << <<"2","0","1","5","-","1","2">>, <<"3">> >>,
    << <<"2","0","1","5","-","1">>, <<"2">> >>,
    << <<"2","0","1","5","-","1","3">>, <<"2">> >>,
    << <<"2","0","2","0","-","0","3">>, <<"x">> >>,
    << <<"2","0","2","0","-","0","3">>, <<"N","a","N">> >> }

\* the sequences of at most n rows
RECURSIVE RowSeqs(_)
RowSeqs(n) ==
  IF n = 0 THEN {<<>>}
  ELSE RowSeqs(n - 1) \cup { Append(r, row) : r \in { q \in RowSeqs(n - 1) : Len(q) = n - 1 },
                                              row \in RowPool }

\* the CSV files (<<>>: there is no file; else <<records>>): a header and up
\* to MaxRows rows; the columns swapped under a header in capitals; a header
\* without the column value; a row with one field only; a file without
\* records
CsvFiles ==
  { << << << <<"d","a","t","e">>, <<"v","a","l","u","e">> >> >> \o rows >> :
      rows \in RowSeqs(MaxRows) }
    \cup { << << << <<"V","a","l","u","e">>, <<"D","A","T","E">> >>,
                 << <<"0",".","5">>, <<"2","0","1","8","-","0","6">> >> >> >>,
           << << << <<"d","a","t","e">>, <<"x">> >> >> >>,
           << << << <<"d","a","t","e">>, <<"v","a","l","u","e">> >>, << <<"2","0","1","5">> >> >> >>,
           << <<>> >>,
           <<>> }

\* the values of the option --base-year
BaseYearOptions == {DefaultBaseYear, 2020}

ImportArgs(country, baseYear, csv) ==
  [country |-> country, baseYear |-> baseYear, csv |-> csv]

\* what the import left behind: msg as for the other commands ("Imported"
\* when it ran to its end); loaded: the table as LoadData returned it;
\* resolved: the table after the resolve-or-create step; idx: the entry the
\* rows go to; the two counters of the loop
ImportRet(msg, loaded, resolved, idx, successfulImports, skippedImports) ==
  [msg |-> msg, loaded |-> loaded, resolved |-> resolved, idx |-> idx,
   successfulImports |-> successfulImports, skippedImports |-> skippedImports]

\* the Data of the Loader, the JSON file and the end of the import
ImportOut(table, f, r) == [countries |-> table, file |-> f, ret |-> r]

\* the import from SaveInflationData on (saved: what MarshalIndent returns
\* for the table)
ImportSaved(l, rc, done, table, saved, f) ==
  IF ~saved.ok
  THEN ImportOut(table, f, ImportRet("SaveError", l.table, rc.table, rc.idx,
                                     done.successfulImports, done.skippedImports))
  ELSE ImportOut(table, <<saved.doc>>,
                 ImportRet("Imported", l.table, rc.table, rc.idx,
                           done.successfulImports, done.skippedImports))

\* the import from the summary and the save on (done: what the loop over
\* the rows left; the country was changed through the pointer, so the table
\* holds it)
ImportLooped(l, rc, done, f) ==
  UNION { { ImportSaved(l, rc, done, table, saved, f) : saved \in {Marshal(table)} } :
          table \in { [rc.table EXCEPT ![rc.idx] = done.c] } }

\* the import from the loop over the rows on
ImportRead(l, rc, f, records, dateIdx, valueIdx) ==
  UNION { ImportLooped(l, rc, done, f) :
          done \in {ImportRows(rc.table[rc.idx], records, 2, dateIdx, valueIdx, 0, 0)} }

\* the import from the opening of the CSV file on
ImportResolvedEntry(l, rc, f, csv) ==
  IF rc.err # Nil
  THEN {ImportOut(rc.table, f, ImportRet("CreateError", l.table, rc.table, rc.idx, 0, 0))}
  ELSE IF csv = <<>>
  THEN {ImportOut(rc.table, f, ImportRet("CsvOpenError", l.table, rc.table, rc.idx, 0, 0))}
  ELSE IF ~ReadAllOk(csv[1])
  THEN {ImportOut(rc.table, f, ImportRet("CsvReadError", l.table, rc.table, rc.idx, 0, 0))}
  ELSE IF Len(csv[1]) < 1
  THEN {ImportOut(rc.table, f, ImportRet("CsvEmpty", l.table, rc.table, rc.idx, 0, 0))}
  ELSE IF \/ HeaderIndex(csv[1][1], <<"d","a","t","e">>) = 0
          \/ HeaderIndex(csv[1][1], <<"v","a","l","u","e">>) = 0
  THEN {ImportOut(rc.table, f, ImportRet("CsvColumns", l.table, rc.table, rc.idx, 0, 0))}
  ELSE ImportRead(l, rc, f, csv[1], HeaderIndex(csv[1][1], <<"d","a","t","e">>),
                  HeaderIndex(csv[1][1], <<"v","a","l","u","e">>))

\* the import from the resolve-or-create step on
ImportLoaded(l, f, country, baseYear, csv) ==
  IF ~l.ok
  THEN {ImportOut(<<>>, f, ImportRet("LoadError", <<>>, <<>>, 0, 0, 0))}
  ELSE UNION { ImportResolvedEntry(l, rc, f, csv) :
               rc \in {ResolveOrCreate(l.table, country, baseYear)} }

\* the action of the command import on the JSON file f
ImportCommand(f, country, baseYear, csv) ==
  IF country = <<>>
  THEN {ImportOut(<<>>, f, ImportRet("Help", <<>>, <<>>, 0, 0, 0))}
  ELSE UNION { ImportLoaded(l, f, country, baseYear, csv) : l \in {LoadInflationData(f)} }

CmdImport ==
  /\ op = "none"
  /\ \E country \in CliQueries, baseYear \in BaseYearOptions, csv \in CsvFiles :
    \E out \in ImportCommand(file, country, baseYear, csv) :
       /\ op' = "import"
       /\ args' = ImportArgs(country, baseYear, csv)
       /\ countries' = out.countries
       /\ file' = out.file
       /\ ret' = out.ret
       /\ calls' = <<>>

NextCli ==
  \/ CmdYear
  \/ CmdCompare
  \/ CmdCompareWithBaseYear
  \/ CmdImport

SpecCli == InitCli /\ [][NextCli]_vars

\* ============================================================== claims
\* case-insensitive equality of two strings
EqFold(s, t) ==
  /\ Len(s) = Len(t)
  /\ \A i \in 1..Len(s) : LowerChar(s[i]) = LowerChar(t[i])

\* every spelling of s in upper- and lower-case letters
RECURSIVE CaseForms(_)
CaseForms(s) ==
  IF s = <<>> THEN {<<>>}
  ELSE LET last == s[Len(s)]
           forms == {last} \cup {x \in DOMAIN LowerOf : LowerOf[x] = LowerChar(last)}
                           \cup {LowerChar(last)}
       IN {Append(t, x) : t \in CaseForms(SubSeq(s, 1, Len(s) - 1)), x \in forms}

\* the strings a country answers to
NamesOf(c) == {c.Name, c.Code} \cup {c.Aliases[j] : j \in DOMAIN c.Aliases}

\* the positions of the countries that answer to q
Matching(q) ==
  {i \in DOMAIN countries : \E s \in NamesOf(countries[i]) : EqFold(s, q)}

Least(S) == CHOOSE i \in S : \A j \in S : i <= j

\* no string is answered to by two countries of the table
Unambiguous ==
  \A i, j \in DOMAIN countries :
    i # j => \A s \in NamesOf(countries[i]), t \in NamesOf(countries[j]) : ~EqFold(s, t)

\* C1: GetCountry(q) returns the first country in table order whose name,
\* code or one of whose aliases equals q when letter case is ignored; in a
\* table where no string is answered to by two countries, every spelling of
\* a country's name, code or alias resolves to that country, without error.
C1_FirstMatch ==
  op = "GetCountry" =>
    /\ Matching(args.query) # {} =>
         ret.err = Nil /\ ret.idx = Least(Matching(args.query))
    /\ \A i \in DOMAIN countries :
         \A s \in NamesOf(countries[i]) :
           \A q \in CaseForms(s) :
             /\ GetCountry(countries, q).err = Nil
             /\ GetCountry(countries, q).idx = Least(Matching(q))
             /\ Unambiguous => GetCountry(countries, q).idx = i

\* C1 witness: a query spelled in another letter case than the stored name
\* is answered to by two different countries and the first one is returned
C1_Witness ==
  /\ op = "GetCountry"
  /\ Len(countries) = 2
  /\ countries[1] # countries[2]
  /\ Matching(args.query) = {1, 2}
  /\ args.query \notin NamesOf(countries[1])
  /\ ret.idx = 1
  /\ ret.err = Nil

\* C1 witness of the second half: in an unambiguous table of two countries
\* a query resolves to the second country through an alias-free entry
C1_WitnessUnambiguous ==
  /\ op = "GetCountry"
  /\ Len(countries) = 2
  /\ Unambiguous
  /\ ret.idx = 2

\* C2 (as claimed): when the query matches no country, GetCountry returns no
\* country and a CountryNotFound error carrying the query exactly as the
\* caller supplied it.
C2_ErrorCarriesOriginalQuery ==
  (op = "GetCountry" /\ Matching(args.query) = {}) =>
    /\ ret.idx = 0
    /\ ret.err.kind = "CountryNotFound"
    /\ ret.err.str = args.query

\* ------------------------------------------------------- YearInflation
\* the country a resolvable query stands for
Resolved(q) == countries[Least(Matching(q))]

\* the decimal spelling of a year, the key of Country.Inflation
YearKey(year) == FormatInt(year)

\* the two-digit, zero-padded spelling of a month in 1..12
MonthKey(month) == <<DigitChars[(month \div 10) + 1], DigitChars[(month % 10) + 1]>>

\* the last call was YearInflation with a resolvable country
YearInflationOnCountry == op = "YearInflation" /\ Matching(args.query) # {}

\* ... and the year is a key of that country's table
YearInflationOnYear ==
  /\ YearInflationOnCountry
  /\ YearKey(args.year) \in DOMAIN Resolved(args.query).Inflation

\* the month -> rate entries of the year asked for
AskedYear == Resolved(args.query).Inflation[YearKey(args.year)]

\* rates added from left to right, starting from 0
RECURSIVE LeftSum(_)
LeftSum(rates) ==
  IF rates = <<>> THEN FZero
  ELSE FAdd(LeftSum(SubSeq(rates, 1, Len(rates) - 1)), rates[Len(rates)])

\* the mean of the rates of a year when its entries are visited in order o
MeanInOrder(yearData, o) ==
  FDiv(LeftSum([i \in DOMAIN o |-> yearData[o[i]]]), FInt(Cardinality(DOMAIN yearData)))

\* C3 (as claimed): for a resolvable country and a year with n >= 1 month
\* entries, YearInflation(country, year, 0) succeeds and returns the sum of
\* those n rates divided by n, whatever the order in which the entries are
\* visited.
C3_MeanIndependentOfOrder ==
  (YearInflationOnYear /\ args.month = 0 /\ DOMAIN AskedYear # {}) =>
    /\ ret.err = Nil
    /\ \A o \in MapOrders(AskedYear) : ret.v1 = MeanInOrder(AskedYear, o)

\* C3 (amended): for a resolvable country and a year with n >= 1 month
\* entries, YearInflation(country, year, 0) succeeds and returns the float64
\* sum of exactly those n rates, added in the order in which the entries are
\* visited, divided by n (the number of months present).
C3_MeanInVisitingOrder ==
  (YearInflationOnYear /\ args.month = 0 /\ DOMAIN AskedYear # {}) =>
    /\ ret.err = Nil
    /\ \E o \in MapOrders(AskedYear) : ret.v1 = MeanInOrder(AskedYear, o)

\* C3 witness: an average over three months was returned, and another
\* visiting order of the same three entries gives another value
C3_Witness ==
  /\ YearInflationOnYear
  /\ args.month = 0
  /\ Cardinality(DOMAIN AskedYear) = 3
  /\ ret.err = Nil
  /\ \E o \in MapOrders(AskedYear) : ret.v1 = MeanInOrder(AskedYear, o)
  /\ \E o \in MapOrders(AskedYear) : ret.v1 # MeanInOrder(AskedYear, o)

\* C4 (as claimed): a month outside 0..12 is rejected with InvalidMonth
\* whether or not the country resolves and the year is present.
C4_InvalidMonthBeforeLookup ==
  (op = "YearInflation" /\ args.month \notin 0..12) =>
    ret.err.kind = "InvalidMonth"

\* C4 (amended): for a month outside 0..12 YearInflation returns
\* CountryNotFound when the country does not resolve, YearNotFound when the
\* year is absent from the country's table, and InvalidMonth (carrying the
\* month) only when the country resolves and the year is present; the rate
\* is 0 in all three cases.
C4_InvalidMonthAfterLookup ==
  (op = "YearInflation" /\ args.month \notin 0..12) =>
    /\ ret.v1 = FZero
    /\ Matching(args.query) = {} => ret.err.kind = "CountryNotFound"
    /\ (YearInflationOnCountry /\ ~YearInflationOnYear) =>
         ret.err = Err("YearNotFound", args.query, args.year, 0)
    /\ YearInflationOnYear => ret.err = Err("InvalidMonth", <<>>, 0, args.month)

\* C4 witness: month -1 on a resolvable country whose table lacks the year
\* is answered with YearNotFound
C4_Witness ==
  /\ YearInflationOnCountry
  /\ ~YearInflationOnYear
  /\ args.month = -1
  /\ ret.err.kind = "YearNotFound"

\* C5: for a resolvable country and a month in 0..12 YearInflation returns
\* YearNotFound if the year key is absent, NoMonthlyData if the month is 0
\* and the year has no month entry, MonthNotFound if the month is in 1..12
\* and the zero-padded month key is absent, and otherwise, for a month in
\* 1..12, the rate stored under that key; the rate is 0 on every error.
C5_Classification ==
  /\ (YearInflationOnCountry /\ args.month \in 0..12) =>
       /\ ~YearInflationOnYear =>
            ret.err = Err("YearNotFound", args.query, args.year, 0)
       /\ (YearInflationOnYear /\ args.month = 0 /\ DOMAIN AskedYear = {}) =>
            ret.err = Err("NoMonthlyData", args.query, args.year, 0)
       /\ (YearInflationOnYear /\ args.month # 0
             /\ MonthKey(args.month) \notin DOMAIN AskedYear) =>
            ret.err = Err("MonthNotFound", args.query, args.year, args.month)
       /\ (YearInflationOnYear /\ args.month # 0
             /\ MonthKey(args.month) \in DOMAIN AskedYear) =>
            ret.err = Nil /\ ret.v1 = AskedYear[MonthKey(args.month)]
  /\ (op = "YearInflation" /\ ret.err # Nil) => ret.v1 = FZero

\* C5 witness: January is asked for, the year holds the key "1" but not the
\* key "01", and MonthNotFound is returned
C5_Witness ==
  /\ YearInflationOnYear
  /\ args.month = 1
  /\ <<"1">> \in DOMAIN AskedYear
  /\ ret.err.kind = "MonthNotFound"

\* C5 witness of the success case: the stored rate of a month is returned
C5_WitnessRate ==
  /\ YearInflationOnYear
  /\ args.month = 12
  /\ ret.err = Nil
  /\ ret.v1 = RateNegHalf

\* ---------------------------------------------------- CompareInflation
\* a rate fetch (country q, year, month) finds its rate in the table
FetchSucceeds(q, year, month) ==
  /\ Matching(q) # {}
  /\ YearKey(year) \in DOMAIN Resolved(q).Inflation
  /\ \/ month = 0 /\ DOMAIN Resolved(q).Inflation[YearKey(year)] # {}
     \/ month \in 1..12 /\ MonthKey(month) \in DOMAIN Resolved(q).Inflation[YearKey(year)]

\* the rates a successful fetch can return: the stored rate of the month,
\* or the mean of the year in one of the visiting orders
FetchRates(q, year, month) ==
  LET yearData == Resolved(q).Inflation[YearKey(year)]
  IN IF month = 0
     THEN {MeanInOrder(yearData, o) : o \in MapOrders(yearData)}
     ELSE {yearData[MonthKey(month)]}

\* the error of a failing fetch
FetchError(q, year, month) ==
  IF Matching(q) = {} THEN Err("CountryNotFound", ToLower(q), 0, 0)
  ELSE IF YearKey(year) \notin DOMAIN Resolved(q).Inflation
  THEN Err("YearNotFound", q, year, 0)
  ELSE IF month = 0 THEN Err("NoMonthlyData", q, year, 0)
  ELSE IF month \in 1..12 THEN Err("MonthNotFound", q, year, month)
  ELSE Err("InvalidMonth", <<>>, 0, month)

\* entry i of the call log is the successful fetch of (q, year, month)
FetchedAt(i, q, year, month) ==
  /\ Len(calls) >= i
  /\ calls[i].country = q /\ calls[i].year = year /\ calls[i].month = month
  /\ calls[i].err = Nil
  /\ calls[i].rate \in FetchRates(q, year, month)

\* C6: whenever both rate fetches succeed, CompareInflation returns no error
\* and newPrice = p * (toRate / fromRate), cumulativeRate =
\* (toRate / fromRate - 1) * 100 for the two fetched rates, for every price p,
\* zero and negative prices included.
C6_CompareFormula ==
  op = "CompareInflation" =>
    /\ (FetchSucceeds(args.query, args.year, args.month)
          /\ FetchSucceeds(args.query, args.year2, args.month2)) => ret.err = Nil
    /\ ret.err = Nil =>
         /\ Len(calls) = 2
         /\ FetchedAt(1, args.query, args.year, args.month)
         /\ FetchedAt(2, args.query, args.year2, args.month2)
         /\ ret.v1 = FMul(args.price, FDiv(calls[2].rate, calls[1].rate))
         /\ ret.v2 = FMul(FSub(FDiv(calls[2].rate, calls[1].rate), FInt(1)), FInt(100))

\* C6 witness: a negative price is converted with a quotient of two
\* different nonzero rates, one of them a whole-year average
C6_Witness ==
  /\ op = "CompareInflation"
  /\ ret.err = Nil
  /\ args.month = 0 /\ args.month2 = 12
  /\ args.price = FInt(-3)
  /\ ~FIsZero(calls[1].rate) /\ calls[1].rate # calls[2].rate
  /\ FIsFinite(ret.v1) /\ ~FIsZero(ret.v1)

\* C6 witness of the zero price: no error, new price 0
C6_WitnessZeroPrice ==
  /\ op = "CompareInflation"
  /\ ret.err = Nil
  /\ args.price = FZero
  /\ ret.v1 = FZero /\ ~FIsZero(ret.v2)

\* C7: CompareInflation fetches the from-date rate first; if that fetch
\* fails the to-date fetch is not made and the from-date error is returned,
\* also when the to-date fetch would fail too; the to-date error is returned
\* only when the from-date fetch succeeded.  On any error both results are 0.
C7_FromErrorFirst ==
  op = "CompareInflation" =>
    /\ ~FetchSucceeds(args.query, args.year, args.month) =>
         /\ Len(calls) = 1
         /\ calls[1].year = args.year /\ calls[1].month = args.month
         /\ ret.err = FetchError(args.query, args.year, args.month)
    /\ (FetchSucceeds(args.query, args.year, args.month)
          /\ ~FetchSucceeds(args.query, args.year2, args.month2)) =>
         /\ Len(calls) = 2
         /\ FetchedAt(1, args.query, args.year, args.month)
         /\ calls[2].year = args.year2 /\ calls[2].month = args.month2
         /\ ret.err = FetchError(args.query, args.year2, args.month2)
    /\ ret.err # Nil => ret.v1 = FZero /\ ret.v2 = FZero

\* C7 witness: both fetches fail, with different errors, and the error of
\* the from-date fetch is the one returned
C7_Witness ==
  /\ op = "CompareInflation"
  /\ ~FetchSucceeds(args.query, args.year, args.month)
  /\ ~FetchSucceeds(args.query, args.year2, args.month2)
  /\ FetchError(args.query, args.year, args.month)
       # FetchError(args.query, args.year2, args.month2)
  /\ ret.err = FetchError(args.query, args.year, args.month)
  /\ Len(calls) = 1

\* the first fetch of the last comparison returned a rate of exactly zero
ZeroReferenceRate ==
  /\ op \in {"CompareInflation", "CompareInflationWithBaseYear"}
  /\ Len(calls) >= 1
  /\ calls[1].err = Nil
  /\ FIsZero(calls[1].rate)

\* C8 (as claimed): when the from-date rate of CompareInflation or the
\* base-year average of CompareInflationWithBaseYear is exactly zero, the
\* operation signals a DivisionByZero error.
C8_DivisionByZeroSignalled ==
  ZeroReferenceRate => ret.err.kind = "DivisionByZero"

\* C8 (amended): when the from-date rate (or the base-year average) is
\* exactly zero and the other fetch succeeds, the operation returns no error
\* and the IEEE-754 results of the division by zero: the new price, and the
\* cumulative rate of CompareInflation, are +Inf, -Inf or NaN.
C8_DivisionByZeroPropagates ==
  (ZeroReferenceRate /\ Len(calls) = 2 /\ calls[2].err = Nil) =>
    /\ ret.err = Nil
    /\ ~FIsFinite(ret.v1)
    /\ op = "CompareInflation" => ~FIsFinite(ret.v2)

\* C8 witness: a from-date average of zero, a positive to-date rate and a
\* positive price give the new price +Inf without an error
C8_Witness ==
  /\ ZeroReferenceRate
  /\ op = "CompareInflation"
  /\ args.month = 0
  /\ ret.err = Nil
  /\ ret.v1 = FInf(1)
  /\ ret.v2 = FInf(1)

\* C8 witness for the base year: a base-year average of zero and a zero
\* price give NaN
C8_WitnessBaseYear ==
  /\ ZeroReferenceRate
  /\ op = "CompareInflationWithBaseYear"
  /\ ret.err = Nil
  /\ ret.v1 = FNaN

\* ---------------------------------------- CompareInflationWithBaseYear
\* the last call was CompareInflationWithBaseYear on a resolvable country
BaseYearOnCountry ==
  op = "CompareInflationWithBaseYear" /\ Matching(args.query) # {}

\* C9: for a country with a nonzero baseYear CompareInflationWithBaseYear
\* takes the whole-year average of baseYear as the reference rate whatever
\* the target month is: on success it returns
\* p * (YearInflation(c, ty, tm) / YearInflation(c, baseYear, 0)).
C9_BaseYearAverage ==
  (op = "CompareInflationWithBaseYear" /\ ret.err = Nil) =>
    /\ Matching(args.query) # {}
    /\ Resolved(args.query).BaseYear # 0
    /\ Len(calls) = 2
    /\ FetchedAt(1, args.query, Resolved(args.query).BaseYear, 0)
    /\ FetchedAt(2, args.query, args.year, args.month)
    /\ ret.v1 = FMul(args.price, FDiv(calls[2].rate, calls[1].rate))

\* C9 witness: the target is a single month, the base rate is the average
\* of the three months of the base year
C9_Witness ==
  /\ BaseYearOnCountry
  /\ ret.err = Nil
  /\ args.month = 12
  /\ Cardinality(DOMAIN Resolved(args.query).Inflation[
                   YearKey(Resolved(args.query).BaseYear)]) = 3
  /\ calls[1].month = 0
  /\ calls[1].rate # calls[2].rate
  /\ ~FIsZero(ret.v1)

\* C10: for a resolvable country whose baseYear is 0,
\* CompareInflationWithBaseYear returns BaseYearNotSet and the price 0 for
\* every price and target date, valid or not, and makes no rate fetch.
C10_BaseYearNotSet ==
  (BaseYearOnCountry /\ Resolved(args.query).BaseYear = 0) =>
    /\ ret.err = Err("BaseYearNotSet", args.query, 0, 0)
    /\ ret.v1 = FZero
    /\ calls = <<>>

\* C10 witness: base year 0, a target year absent from the table, month 13
\* and a negative price
C10_Witness ==
  /\ BaseYearOnCountry
  /\ Resolved(args.query).BaseYear = 0
  /\ YearKey(args.year) \notin DOMAIN Resolved(args.query).Inflation
  /\ args.month = 13
  /\ args.price = FInt(-3)
  /\ ret.err.kind = "BaseYearNotSet"

\* the error of the base-year fetch of the last CompareInflationWithBaseYear
BaseFetchFails ==
  /\ BaseYearOnCountry
  /\ Resolved(args.query).BaseYear # 0
  /\ ~FetchSucceeds(args.query, Resolved(args.query).BaseYear, 0)

\* the base-year fetch succeeds and the target fetch fails
TargetFetchFails ==
  /\ BaseYearOnCountry
  /\ Resolved(args.query).BaseYear # 0
  /\ FetchSucceeds(args.query, Resolved(args.query).BaseYear, 0)
  /\ ~FetchSucceeds(args.query, args.year, args.month)

\* C11: CompareInflationWithBaseYear fetches the base-year rate before the
\* target rate; a failing base-year fetch and a failing target fetch are
\* reported as different errors also when the underlying rate error is the
\* same, and when both would fail the base-year error is returned.
C11_BaseErrorDistinct ==
  /\ BaseFetchFails =>
       /\ Len(calls) = 1
       /\ calls[1].year = Resolved(args.query).BaseYear /\ calls[1].month = 0
       /\ ret.err = Wrap("BaseYear",
                         FetchError(args.query, Resolved(args.query).BaseYear, 0))
       /\ ret.err # Wrap("target",
                         FetchError(args.query, Resolved(args.query).BaseYear, 0))
  /\ TargetFetchFails =>
       /\ Len(calls) = 2
       /\ FetchedAt(1, args.query, Resolved(args.query).BaseYear, 0)
       /\ ret.err = Wrap("target", FetchError(args.query, args.year, args.month))
       /\ ret.err # Wrap("BaseYear", FetchError(args.query, args.year, args.month))

\* C11 witness: the base-year fetch fails, the target fetch is the same
\* (year, 0) fetch and would fail with the same rate error, and the error
\* returned is the one of the base-year fetch
C11_Witness ==
  /\ BaseFetchFails
  /\ args.year = Resolved(args.query).BaseYear
  /\ args.month = 0
  /\ ret.err.kind = "NoMonthlyData"
  /\ ret.err.wrap = "BaseYear"
  /\ Len(calls) = 1

\* C11 witness of the other side: the same rate error out of the target
\* fetch is reported under the target prefix
C11_WitnessTarget ==
  /\ TargetFetchFails
  /\ ret.err.kind = "NoMonthlyData"
  /\ ret.err.wrap = "target"

\* the last call was a comparison and it failed
CompositeFailed ==
  /\ op \in {"CompareInflation", "CompareInflationWithBaseYear"}
  /\ ret.err # Nil

\* the error of the sub-operation that failed first in the last comparison:
\* the country resolution of CompareInflationWithBaseYear, or the last rate
\* fetch of the call log
FirstFailure ==
  IF op = "CompareInflationWithBaseYear" /\ Matching(args.query) = {}
  THEN Err("CountryNotFound", ToLower(args.query), 0, 0)
  ELSE calls[Len(calls)].err

\* C12 (as claimed): on failure both comparisons return exactly the error of
\* the first failing sub-operation, unmodified, and no partial result.
C12_ErrorVerbatim ==
  (CompositeFailed /\ ret.err.kind # "BaseYearNotSet") =>
    /\ ret.err = FirstFailure
    /\ ret.v1 = FZero /\ ret.v2 = FZero

\* C12 (amended): on failure CompareInflation returns exactly the error of
\* its first failing rate fetch; CompareInflationWithBaseYear returns the
\* error of a failing country resolution unmodified, and the error of a
\* failing rate fetch inside a new error that prefixes it with the fetch
\* that failed (base year or target).  No partial result is returned.
C12_ErrorVerbatimOrPrefixed ==
  (CompositeFailed /\ ret.err.kind # "BaseYearNotSet") =>
    /\ ret.v1 = FZero /\ ret.v2 = FZero
    /\ op = "CompareInflation" =>
         ret.err = FirstFailure /\ ret.err.wrap = "none"
    /\ (op = "CompareInflationWithBaseYear" /\ Matching(args.query) = {}) =>
         ret.err = FirstFailure /\ ret.err.wrap = "none"
    /\ (op = "CompareInflationWithBaseYear" /\ Matching(args.query) # {}) =>
         /\ ret.err # FirstFailure
         /\ ret.err = Wrap(IF Len(calls) = 1 THEN "BaseYear" ELSE "target",
                           FirstFailure)

\* C12 witness: a failing target fetch of CompareInflationWithBaseYear comes
\* back under the target prefix, with price 0
C12_Witness ==
  /\ CompositeFailed
  /\ op = "CompareInflationWithBaseYear"
  /\ Len(calls) = 2
  /\ calls[2].err.kind = "MonthNotFound"
  /\ ret.err = Wrap("target", calls[2].err)
  /\ ret.v1 = FZero

\* C12 witness for CompareInflation: the to-date error comes back as it is
C12_WitnessCompare ==
  /\ CompositeFailed
  /\ op = "CompareInflation"
  /\ Len(calls) = 2
  /\ ret.err = calls[2].err

\* ------------------------------------------- GetFirstDate and GetLastDate
\* the (year, month) pairs present in the table of the country searched
DatePairs ==
  LET inflation == countries[args.idx].Inflation
  IN UNION { { <<Atoi(y).n, Atoi(m).n>> : m \in DOMAIN inflation[y] } :
             y \in DOMAIN inflation }

\* p is before q, or is q, in the lexicographic order of (year, month)
LexLeq(p, q) == p[1] < q[1] \/ (p[1] = q[1] /\ p[2] <= q[2])

\* C13: for a country with at least one populated month and for every
\* iteration order, GetFirstDate returns the lexicographically smallest
\* (year, month) pair present in the table, never an absent pair.
C13_FirstDateIsLeast ==
  (op = "GetFirstDate" /\ DatePairs # {}) =>
    /\ <<ret.year, ret.month>> \in DatePairs
    /\ \A p \in DatePairs : LexLeq(<<ret.year, ret.month>>, p)

\* C14: for a country with at least one populated month and for every
\* iteration order, GetLastDate returns the lexicographically largest
\* (year, month) pair present in the table, never an absent pair.
C14_LastDateIsGreatest ==
  (op = "GetLastDate" /\ DatePairs # {}) =>
    /\ <<ret.year, ret.month>> \in DatePairs
    /\ \A p \in DatePairs : LexLeq(p, <<ret.year, ret.month>>)

\* ------------------------------------------------- saving and loading
\* C15: loading the file that SaveInflationData wrote yields the table that
\* was saved -- the same countries in the same order with the same name,
\* code, base year, aliases and year/month/rate entries -- and saving the
\* loaded table again produces the same document.
C15_RoundTrip ==
  (op = "LoadData" /\ args.written # <<>>) =>
    /\ ret.ok
    /\ countries = args.written[1]
    /\ Marshal(countries) = [doc |-> file[1], ok |-> TRUE]

\* C15 witness: a Loader that held no table has loaded a saved table of two
\* countries, one with aliases and rates that are not binary fractions, one
\* with no aliases and no rates
C15_Witness ==
  /\ op = "LoadData" /\ args.written # <<>>
  /\ ret.before = <<>>
  /\ Len(countries) = 2
  /\ countries[1].Inflation = InflationDecimals
  /\ countries[1].Aliases # <<>>
  /\ countries[2].AliasesNil /\ countries[2].InflationNil

\* the member of the i-th country of the file
SavedMember(i, key) ==
  Member(Member(file[1], <<"c","o","u","n","t","r","i","e","s">>).items[i], key)

\* C16: a country whose aliases are empty or unset is written with an empty
\* array of aliases (not null), and a country whose inflation table has no
\* years or is unset is written with an empty object.
C16_EmptyWrittenEmpty ==
  (op = "SaveInflationData" /\ ret.ok) =>
    \A i \in DOMAIN countries :
      /\ countries[i].Aliases = <<>> =>
           SavedMember(i, <<"a","l","i","a","s","e","s">>) = JArray(<<>>)
      /\ DOMAIN countries[i].Inflation = {} =>
           SavedMember(i, <<"i","n","f","l","a","t","i","o","n">>) = JObject(<<>>, <<>>)

\* -------------------------------------------------- the query commands
\* the query commands that get as far as parsing a date
ParsesDate ==
  /\ op \in {"year", "compare", "compareWithBaseYear"}
  /\ ret.msg # "Help"

\* the date arguments in the order in which the command parses them
DateArgsOf == IF op = "compare" THEN <<args.dateStr, args.dateStr2>> ELSE <<args.dateStr>>

\* the two shapes of a date: four digits, or four digits, "-" and a
\* two-digit month 01..12
IsYYYY(s) == Len(s) = 4 /\ IsDigits(s)
IsYYYYMM(s) ==
  /\ Len(s) = 7 /\ s[5] = "-"
  /\ IsDigits(SubSeq(s, 1, 4)) /\ IsDigits(SubSeq(s, 6, 7))
  /\ NatOf(SubSeq(s, 6, 7)) \in 1..12

\* C17: parseDate accepts exactly the shapes YYYY (month 0) and YYYY-MM
\* (month 01..12); every other string is a date-parsing error, and in the
\* commands year, compare and compareWithBaseYear that error ends the
\* command before the table is loaded or a core operation is called.
C17_DateShapes ==
  ParsesDate =>
    /\ \A i \in DOMAIN ret.dates :
         LET s == DateArgsOf[i]
         IN /\ ret.dates[i].err = Nil <=> (IsYYYY(s) \/ IsYYYYMM(s))
            /\ IsYYYY(s) => ret.dates[i].year = NatOf(s) /\ ret.dates[i].month = 0
            /\ IsYYYYMM(s) =>
                 /\ ret.dates[i].year = NatOf(SubSeq(s, 1, 4))
                 /\ ret.dates[i].month = NatOf(SubSeq(s, 6, 7))
    /\ (\E i \in DOMAIN ret.dates : ret.dates[i].err # Nil) =>
         /\ ret.msg = "InvalidDate"
         /\ ~ret.loadCalled
         /\ countries = <<>>
         /\ calls = <<>>

\* ------------------------------------------------------- the import
\* the import got as far as the loop over the rows
ImportRan == op = "import" /\ ret.msg \in {"Imported", "SaveError"}

\* the data rows of the CSV file and the columns of the date and the value
DataRows == Tail(args.csv[1])
DateColumn == HeaderIndex(args.csv[1][1], <<"d","a","t","e">>)
ValueColumn == HeaderIndex(args.csv[1][1], <<"v","a","l","u","e">>)

\* the date of a row parses as YYYY-MM in its first seven characters and its
\* value parses as a number once quotes are stripped and commas are points
RowDate(row) == TimeParse(SubSeq(row[DateColumn], 1, 7))
RowValue(row) == ParseFloat(CommaToPoint(TrimQuotes(row[ValueColumn])))
RowValid(row) ==
  /\ Len(row[DateColumn]) >= 7
  /\ RowDate(row).ok
  /\ RowValue(row).ok

ValidRows == { i \in DOMAIN DataRows : RowValid(DataRows[i]) }

\* the keys a valid row writes
RowYear(row) == FormatInt(RowDate(row).year)
RowMonth(row) == FormatInt02(RowDate(row).month)

\* the table in the JSON file
SavedTable == Unmarshal(file[1]).table

\* table t holds rate v under (year key y, month key m) of its i-th country
HoldsRate(t, i, y, m, v) ==
  /\ i \in DOMAIN t
  /\ y \in DOMAIN t[i].Inflation
  /\ m \in DOMAIN t[i].Inflation[y]
  /\ t[i].Inflation[y][m] = v

\* C18: every data row is handled on its own: a row whose date is shorter
\* than 7 characters or does not parse as YYYY-MM, or whose value does not
\* parse as a number, is skipped, counted and changes nothing, every other
\* row is applied; after the loop the two counters add up to the number of
\* data rows and the table is saved.
C18_RowsIndependent ==
  ImportRan =>
    /\ ret.skippedImports = Len(DataRows) - Cardinality(ValidRows)
    /\ ret.successfulImports = Cardinality(ValidRows)
    /\ ret.successfulImports + ret.skippedImports = Len(DataRows)
    /\ countries =
         [ret.resolved EXCEPT ![ret.idx] =
            ImportRows(ret.resolved[ret.idx],
                       <<args.csv[1][1]>> \o SelectSeq(DataRows, RowValid),
                       2, DateColumn, ValueColumn, 0, 0).c]
    /\ \A i \in ValidRows :
         \E j \in ValidRows :
           /\ j >= i
           /\ RowYear(DataRows[j]) = RowYear(DataRows[i])
           /\ RowMonth(DataRows[j]) = RowMonth(DataRows[i])
           /\ HoldsRate(countries, ret.idx, RowYear(DataRows[i]), RowMonth(DataRows[i]),
                        RowValue(DataRows[j]).f)
    /\ ret.msg = "Imported"
    /\ file = <<Marshal(countries).doc>>

\* row i is the last valid row of its (year, month)
LastOfKey(i) ==
  /\ i \in ValidRows
  /\ \A j \in ValidRows :
       (RowYear(DataRows[j]) = RowYear(DataRows[i])
          /\ RowMonth(DataRows[j]) = RowMonth(DataRows[i])) => j <= i

\* a valid row writes (y, m)
Written(y, m) ==
  \E i \in ValidRows : RowYear(DataRows[i]) = y /\ RowMonth(DataRows[i]) = m

\* C19: the import applies the valid rows in file order to the one resolved
\* entry: in the saved table the rate of every (year, month) the CSV writes
\* is the value of the last valid row of that key, the other keys of that
\* country keep their rate, and every other country is unchanged.
C19_ImportInPlace ==
  ImportRan =>
    /\ Len(SavedTable) = Len(ret.resolved)
    /\ \A i \in ValidRows :
         LastOfKey(i) =>
           HoldsRate(SavedTable, ret.idx, RowYear(DataRows[i]), RowMonth(DataRows[i]),
                     RowValue(DataRows[i]).f)
    /\ \A y \in DOMAIN ret.resolved[ret.idx].Inflation :
         \A m \in DOMAIN ret.resolved[ret.idx].Inflation[y] :
           ~Written(y, m) =>
             HoldsRate(SavedTable, ret.idx, y, m, ret.resolved[ret.idx].Inflation[y][m])
    /\ \A i \in DOMAIN ret.loaded :
         i # ret.idx => (i \in DOMAIN SavedTable /\ SavedTable[i] = ret.loaded[i])

\* the import got as far as the resolve-or-create step
ImportResolved == op = "import" /\ ret.msg \notin {"Help", "LoadError"}

\* the entries of the loaded table that answer to the COUNTRY argument
LoadedMatching ==
  { i \in DOMAIN ret.loaded :
      \E n \in NamesOf(ret.loaded[i]) : EqFold(n, args.country) }

\* C20: a country that does not resolve is appended as one new last entry
\* with name = code = the query, empty aliases, an empty inflation table and
\* the base year of the option, and the entry the rows go to is that one; a
\* country that resolves keeps its base year unless it is 0, which becomes
\* the option.  No other entry changes, none is removed or reordered.
C20_ResolveOrCreate ==
  ImportResolved =>
    IF LoadedMatching = {}
    THEN /\ ret.resolved =
              Append(ret.loaded,
                     [Name |-> args.country, Code |-> args.country,
                      Aliases |-> <<>>, AliasesNil |-> FALSE,
                      Inflation |-> EmptyMap, InflationNil |-> FALSE,
                      BaseYear |-> args.baseYear])
         /\ ret.idx = Len(ret.loaded) + 1
    ELSE /\ ret.idx = Least(LoadedMatching)
         /\ ret.resolved =
              [ret.loaded EXCEPT ![ret.idx].BaseYear =
                 IF @ = 0 THEN args.baseYear ELSE @]

\* C20 witness: a country of no entry was created behind two entries, with
\* a base year given by the option
C20_Witness ==
  /\ ImportResolved
  /\ LoadedMatching = {}
  /\ Len(ret.loaded) = 2
  /\ ret.idx = 3
  /\ args.baseYear # DefaultBaseYear
  /\ ret.resolved[3].BaseYear = args.baseYear

\* C20 witnesses: an entry with a base year kept it against the option, an
\* entry without one got the option
C20_WitnessKept ==
  /\ ImportResolved
  /\ LoadedMatching # {}
  /\ ret.loaded[ret.idx].BaseYear = DefaultBaseYear
  /\ args.baseYear # DefaultBaseYear
  /\ ret.resolved[ret.idx].BaseYear = DefaultBaseYear

C20_WitnessSet ==
  /\ ImportResolved
  /\ LoadedMatching # {}
  /\ ret.loaded[ret.idx].BaseYear = 0
  /\ ret.resolved[ret.idx].BaseYear = args.baseYear

\* ------------------------------------------- the PRICE of the comparisons
\* the commands that take a PRICE
TakesPrice == op \in {"compare", "compareWithBaseYear"}

\* every date argument of the command has one of the two shapes
WellFormedDates ==
  \A i \in DOMAIN DateArgsOf : IsYYYY(DateArgsOf[i]) \/ IsYYYYMM(DateArgsOf[i])

\* the command called CompareInflation / CompareInflationWithBaseYear
CoreReached == ret.msg \in {"Printed", "CoreError"}

\* the command printed the usage text and returned: nothing was loaded and
\* no core operation was called
UsageOnly ==
  /\ ret.msg = "Help"
  /\ ~ret.loadCalled
  /\ countries = <<>>
  /\ calls = <<>>

\* C21 as stated: compare and compareWithBaseYear treat a PRICE equal to 0
\* as a missing argument (usage text, no load, no core operation), and any
\* nonzero price, negative ones included, with well-formed dates reaches
\* the core operation.
C21_ZeroPriceIsMissing ==
  TakesPrice =>
    /\ FIsZero(args.price) => UsageOnly
    /\ (~FIsZero(args.price) /\ WellFormedDates) => CoreReached

\* C21 amended: a PRICE equal to 0 is treated as a missing argument (usage
\* text, no load, no core operation); a nonzero price, negative ones
\* included, is never the reason for the usage text: with a COUNTRY that is
\* not empty and well-formed dates the command loads the table, and it
\* reaches the core operation exactly when the load succeeds, ending with
\* the load error otherwise.
C21_ZeroPriceIsMissingElseLoads ==
  TakesPrice =>
    /\ FIsZero(args.price) => UsageOnly
    /\ (~FIsZero(args.price) /\ args.country # <<>> /\ WellFormedDates) =>
         /\ ret.loadCalled
         /\ IF LoadInflationData(file).ok
            THEN CoreReached /\ countries = LoadInflationData(file).table
            ELSE ret.msg = "LoadError" /\ calls = <<>>
    /\ (~FIsZero(args.price) /\ args.country = <<>>) => UsageOnly

\* C21 witness: compare with a country, two well-formed dates and PRICE 0
\* over a table that loads printed the usage text
C21_Witness ==
  /\ op = "compare"
  /\ FIsZero(args.price)
  /\ args.country # <<>>
  /\ WellFormedDates
  /\ LoadInflationData(file).ok
  /\ UsageOnly

\* C21 witnesses: compareWithBaseYear with PRICE 0; a negative price that
\* reached the core operation and gave a negative result; a nonzero price
\* stopped by the load
C21_WitnessBaseYear ==
  /\ op = "compareWithBaseYear"
  /\ FIsZero(args.price)
  /\ args.country # <<>>
  /\ WellFormedDates
  /\ UsageOnly

C21_WitnessNegative ==
  /\ TakesPrice
  /\ args.price.m < 0
  /\ ret.msg = "Printed"
  /\ ret.v1.m < 0

C21_WitnessLoadError ==
  /\ TakesPrice
  /\ ~FIsZero(args.price)
  /\ args.country # <<>>
  /\ WellFormedDates
  /\ ret.msg = "LoadError"

====
